---- MODULE Spec2Model ----
(***************************************************************************)
(* Trading Ace: rewards ledger, weekly distributor, block poller and       *)
(* WebSocket broadcaster, modelled as state machines over one database.    *)
(*                                                                         *)
(* The repository holds several iterations of the same program.  Each is   *)
(* given its own next-state relation over the shared tables:               *)
(*   SpecLegacy       package main: RecordSwap and the weekly task         *)
(*   SpecSvc          cmd/tradingace poller over internal/db DBServiceImpl *)
(*   SpecSvcCampaign  the same poller with manageCampaign and the calendar *)
(*   SpecPkg          internal/db package-level weekly distribution        *)
(*   SpecWS           package main topic broadcaster (websocket.go)        *)
(*   SpecWS5          internal/websocket broadcaster (synchronous writes)  *)
(***************************************************************************)
EXTENDS Integers, Sequences, FiniteSets, TLC

VARIABLES
    users,            \* table users: address -> row
    swap_events,      \* table swap_events: sequence of rows (id = index)
    points_history,   \* table points_history: sequence of rows
    leaderboard,      \* table leaderboard: address -> points
    campaign_config,  \* table campaign_config: sequence of rows (id = index)
    now,              \* wall clock, in days
    result,           \* outcome of the last handler invocation
    latestBlock,      \* head of the chain, as the chain client reports it
    lastProcessedBlock, \* the poller's cursor (a local of processEthereumEvents)
    fetchedRanges,    \* the block ranges of the last ticks that completed, oldest first
    clients,          \* WebSocketManager.clients: the registered clients
    handler,          \* per connection: where HandleWebSocket / readPump stands
    writer,           \* per connection: where writePump stands
    conn,             \* per connection: "none", "open" or "closed"
    send,             \* WSClient.send: the buffered channel's queue
    held,             \* per connection: the message writePump received and has not written
    sendClosed,       \* WSClient.send has been closed
    subscriptions,    \* WSClient.subscriptions
    unregistering,    \* goroutines of BroadcastToTopic blocked in manager.unregister <- c
    clients5,         \* internal/websocket: WebSocketManager.clients
    conn5,            \* internal/websocket: per connection "none", "open" or "closed"
    pump5,            \* internal/websocket: where HandleWebSocket / readPump stands
    sock5,            \* frames written to a connection that its peer has not read yet
    deadline5,        \* the connection's write deadline: "none", "pending", "expired"
    run5,             \* internal/websocket: where Run stands
    caller5,          \* a Broadcast* caller: "idle", or "blocked" in manager.broadcast <- data
    ctx,              \* the context handed to the background loops: "live" or "cancelled"
    loops,            \* per background loop: "running", or "returned" from its for/select
    mutex,            \* WebSocketManager.mutex: Lock held, and the number of RLocks held
    runAt,            \* Run, statement by statement: where it stands and with which client
    callerAt,         \* a goroutine calling a Broadcast* helper: where it stands
    stop,             \* WebSocketManager.stop: the channel, and how often it was closed
    stopOnce,         \* WebSocketManager.stopOnce: done, and the holder of its mutex
    stopCalls,        \* per goroutine calling Stop: where it stands, calls returned
    ticker            \* manageCampaign's 24-hour ticker: its start, and its last ticks

dbvars == <<users, swap_events, points_history, leaderboard, campaign_config>>

pollvars == <<latestBlock, lastProcessedBlock, fetchedRanges>>

wsvars == <<clients, handler, writer, conn, send, held, sendClosed, subscriptions,
            unregistering>>

ws5vars == <<clients5, conn5, pump5, sock5, deadline5, run5, caller5>>

\* The registry lock and the goroutines followed statement by statement.
lockvars == <<mutex, runAt, callerAt>>

\* The cancellation context and the for/select loops that listen to it.
\* Stop, its channel and its sync.Once.
stopvars == <<stop, stopOnce, stopCalls>>

ctlvars == <<ctx, loops, lockvars, stopvars, ticker>>

\* What the ledger's handlers leave alone.
netvars == <<wsvars, ws5vars, ctlvars>>

\* What the broadcasters' handlers leave alone.
ledgervars == <<dbvars, now, pollvars, ctlvars>>

(***************************************************************************)
(* Bounds of the model and constants of the program.                       *)
(***************************************************************************)
MaxSwaps == 3           \* rows of swap_events explored
MaxHist == 5            \* rows of points_history explored
MaxLaterSwaps == 6      \* rows of swap_events explored in a later week
MaxLaterHist == 7       \* rows of points_history explored in a later week
LaterStart == 14        \* day on which the later-week exploration starts
MaxTime == 35           \* the clock stops here
ClockStep == 7          \* days between two readings of the clock

WeekDays == 7           \* 7 * 24 * time.Hour
HoursPerDay == 24       \* hours of a day
Monday == 1             \* time.Monday (time.Sunday is 0)
CampaignDays == 28      \* 4 * 7 * 24 * time.Hour / INTERVAL '4 weeks'
Lookback == 100         \* lastProcessedBlock = latestBlock - 100
MaxBlock == 102         \* the chain stops growing here
YoungHead == 96         \* the lowest head of a chain the program starts on
MaxPoints == 10000      \* leaderboard points explored per address
MaxRanges == 3          \* completed ticks whose block ranges are remembered
MaxCampaigns == 3       \* rows of campaign_config explored
MaxStopCalls == 2       \* calls of Stop explored per goroutine
BatchLen == 2           \* raw logs in a batch
SwapTopics == 3         \* len(vLog.Topics) != 3
SwapDataLen == 128      \* len(vLog.Data) != 128
UsdcDecimals == 1000000 \* big.NewFloat(1e6)
WethUnits == 1000       \* amount0 is counted in units of 1e15 wei: 1000 a token
EthPrice == 2000        \* USD per volatile token
SendCap == 1            \* slots of a client's send channel explored
MaxUnregistering == 1   \* blocked unregister goroutines explored per client
SockCap == 1            \* frames a peer's socket takes before a write blocks
OnboardingThreshold == 1000
OnboardingPoints == 100
SharePool == 10000

Addrs == {"A", "B"}

\* The connections explored, and the topics their peers name.
Conns == {"c1", "c2"}
Topics == {"swap_events", "leaderboard"}

\* The topics the Broadcast* helpers publish to, and the strings a peer can
\* put in request["topic"]: those and any other ("" when the key is absent).
BroadcastTopics == Topics \cup {"campaign"}
RequestTopics == BroadcastTopics \cup {"prices", ""}

\* The Swap logs of the pool contract: block, transaction hash, sender (topic 1)
\* and USD value.  A log can be delivered any number of times.
ChainLogs ==
    { [block |-> 101, tx |-> 1, sender |-> "A", usd |-> 1000],
      [block |-> 102, tx |-> 2, sender |-> "B", usd |-> 1000],
      [block |-> 103, tx |-> 3, sender |-> "A", usd |-> 500],
      [block |-> 104, tx |-> 4, sender |-> "B", usd |-> 500] }
TxHashes == {l.tx : l \in ChainLogs}

\* The goroutines that call Stop.
StopCallers == {"s1", "s2", "s3"}

\* The goroutines that run "for { select { case <-ctx.Done(): return ..."
Loops == {"poller", "campaign", "dispatch"}

Max(a, b) == IF a >= b THEN a ELSE b

(***************************************************************************)
(* Tables.                                                                 *)
(***************************************************************************)
DB == [users |-> users, swap_events |-> swap_events,
       points_history |-> points_history, leaderboard |-> leaderboard,
       campaign_config |-> campaign_config]

\* Column defaults of table users.
NewUser == [onboarding_completed |-> FALSE, onboarding_points |-> 0, total_points |-> 0]

\* INSERT INTO users (address) ... ON CONFLICT (address) DO UPDATE SET address = EXCLUDED.address
UpsertUser(us, a) ==
    IF a \in DOMAIN us THEN us
    ELSE [x \in DOMAIN us \cup {a} |-> IF x = a THEN NewUser ELSE us[x]]

\* INSERT INTO leaderboard ... ON CONFLICT (address) DO UPDATE SET points = leaderboard.points + $2
UpsertLeaderboard(lb, a, p) ==
    [x \in DOMAIN lb \cup {a} |->
        IF x = a THEN (IF a \in DOMAIN lb THEN lb[a] + p ELSE p) ELSE lb[x]]

\* SELECT ... FROM campaign_config ORDER BY id DESC LIMIT 1
GetCampaignConfig(d) == d.campaign_config[Len(d.campaign_config)]

\* !config.IsActive || now.Before(config.StartTime) || now.After(config.EndTime)
OutsideCampaign(config, t) ==
    ~config.is_active \/ t < config.start_time \/ t > config.end_time

RECURSIVE SumInts(_)
\* Sum of a sequence of integers.
SumInts(s) == IF s = <<>> THEN 0 ELSE Head(s) + SumInts(Tail(s))

RECURSIVE SumAmounts(_)
\* SUM(amount_usd) over a sequence of swap_events rows.
SumAmounts(rows) ==
    IF rows = <<>> THEN 0 ELSE Head(rows).amount_usd + SumAmounts(Tail(rows))

(***************************************************************************)
(* package main (legacy): RecordSwap.                                      *)
(* Failure point f: 0 none, 1 GetCampaignConfig, 2 the INSERT INTO users   *)
(* issued on DB (outside the transaction), 3 any statement of the          *)
(* transaction (Begin ... Commit).                                         *)
(***************************************************************************)
InWindow(row, t) == row.timestamp >= t - WeekDays /\ row.timestamp < t

\* RecordSwap with "amountUSD > 1000" in place of "amountUSD >= 1000".
OnboardingDueAboveThreshold(us, address, amountUSD) ==
    amountUSD > OnboardingThreshold /\ ~us[address].onboarding_completed

\* RecordSwap without the test of the onboarding flag.
OnboardingDueEverySwap(us, address, amountUSD) ==
    amountUSD >= OnboardingThreshold

\* Would the onboarding branch of RecordSwap run for this user and amount?
OnboardingDue(us, address, amountUSD) ==
    amountUSD >= OnboardingThreshold /\ ~us[address].onboarding_completed

\* The statements between tx.Begin and tx.Commit, applied to the tables d.
RecordSwapTx(d, t, address, amountUSD, txHash) ==
    LET ins == [d EXCEPT !.swap_events =
                    Append(@, [user |-> address, transaction_hash |-> txHash,
                               amount_usd |-> amountUSD, timestamp |-> t])]
    IN IF OnboardingDue(ins.users, address, amountUSD)
       THEN [ins EXCEPT
                !.users[address].onboarding_completed = TRUE,
                !.users[address].onboarding_points = OnboardingPoints,
                !.points_history =
                    Append(@, [user |-> address, points |-> OnboardingPoints,
                               reason |-> "Onboarding task completed"])]
       ELSE ins

\* What persists of the INSERT INTO users when the later transaction fails.
RecordSwapAfterRollback(d, withUser) == withUser

RecordSwap(d, t, address, amountUSD, txHash, f) ==
    LET config == GetCampaignConfig(d)
        withUser == [d EXCEPT !.users = UpsertUser(@, address)]
    IN IF f = 1 THEN [db |-> d, err |-> TRUE, skipped |-> FALSE]
       ELSE IF OutsideCampaign(config, t) THEN [db |-> d, err |-> FALSE, skipped |-> TRUE]
       ELSE IF f = 2 THEN [db |-> d, err |-> TRUE, skipped |-> FALSE]
       ELSE IF f = 3 THEN [db |-> RecordSwapAfterRollback(d, withUser),
                           err |-> TRUE, skipped |-> FALSE]
       ELSE [db |-> RecordSwapTx(withUser, t, address, amountUSD, txHash),
             err |-> FALSE, skipped |-> FALSE]

(***************************************************************************)
(* package main (legacy): CalculateWeeklySharePoolPoints.                  *)
(***************************************************************************)
WindowRows(d, t) == SelectSeq(d.swap_events, LAMBDA r : InWindow(r, t))

\* SELECT COALESCE(SUM(amount_usd), 0) FROM swap_events WHERE timestamp >= $1 AND timestamp < $2
TotalVolume(d, t) == SumAmounts(WindowRows(d, t))

UserVolume(d, t, a) ==
    SumAmounts(SelectSeq(WindowRows(d, t), LAMBDA r : r.user = a))

\* WHERE u.onboarding_completed = true ... HAVING COALESCE(SUM(se.amount_usd), 0) > 0
Eligible(d, t) ==
    {a \in DOMAIN d.users : d.users[a].onboarding_completed /\ UserVolume(d, t, a) > 0}

\* ORDER BY volume DESC: every order of the eligible users with non-increasing
\* volume (the order among equal volumes is the storage engine's choice).
VolumeOrders(d, t) ==
    LET E == Eligible(d, t)
        n == Cardinality(E)
    IN {o \in [1..n -> E] :
            /\ \A i, j \in 1..n : i # j => o[i] # o[j]
            /\ \A i \in 1..n : i < n => UserVolume(d, t, o[i]) >= UserVolume(d, t, o[i + 1])}

\* int((user.Volume / totalVolume) * float64(totalPoints)), then the minimum of 1.
ProRata(volume, totalVolume) ==
    LET p == (volume * SharePool) \div totalVolume
    IN IF p = 0 THEN 1 ELSE p

\* Points of the last user of the list.
LastShare(volume, totalVolume, remainingPoints) == remainingPoints

RECURSIVE Distribute(_, _, _, _, _)
\* The loop "for i, user := range users": the awards, in list order.
Distribute(d, t, order, i, remainingPoints) ==
    IF i > Len(order) THEN <<>>
    ELSE LET v == UserVolume(d, t, order[i])
             points == IF i = Len(order)
                       THEN LastShare(v, TotalVolume(d, t), remainingPoints)
                       ELSE ProRata(v, TotalVolume(d, t))
         IN <<points>> \o Distribute(d, t, order, i + 1, remainingPoints - points)

RECURSIVE AppendAwards(_, _, _, _)
AppendAwards(hist, order, awards, reason) ==
    IF order = <<>> THEN hist
    ELSE AppendAwards(Append(hist, [user |-> Head(order), points |-> Head(awards),
                                    reason |-> reason]),
                      Tail(order), Tail(awards), reason)

\* Failure point f: 0 none, 1 GetCampaignConfig, 2 any statement of the
\* transaction.  order is the row order the eligible-users query returns.
CalculateWeeklySharePoolPoints(d, t, order, f) ==
    LET config == GetCampaignConfig(d)
        isLastWeek == t + WeekDays > config.end_time
        awards == Distribute(d, t, order, 1, SharePool)
        paid == [d EXCEPT !.points_history =
                    AppendAwards(@, order, awards, "Weekly Share Pool Task")]
        done == IF isLastWeek
                THEN [paid EXCEPT !.campaign_config[Len(d.campaign_config)].is_active = FALSE]
                ELSE paid
        none == [db |-> d, err |-> FALSE, ran |-> FALSE, awards |-> <<>>, totalVolume |-> 0]
    IN IF f = 1 THEN [none EXCEPT !.err = TRUE]
       ELSE IF OutsideCampaign(config, t) THEN none
       ELSE IF f = 2 THEN [none EXCEPT !.err = TRUE]
       ELSE IF TotalVolume(d, t) = 0 THEN none
       ELSE [db |-> done, err |-> FALSE, ran |-> TRUE, awards |-> awards,
             totalVolume |-> TotalVolume(d, t)]

(***************************************************************************)
(* Initial state: the tables after the migrations ran at time 0.           *)
(***************************************************************************)
EmptyFn == [x \in {} |-> 0]

NoResult == [op |-> "none", err |-> FALSE]

\* The state after construction of everything but the tables, the clock and
\* the head of the chain.
InitControl ==
    /\ result = NoResult
    /\ lastProcessedBlock = 0
    /\ fetchedRanges = <<>>
    /\ clients = {}
    /\ handler = [c \in Conns |-> "idle"]
    /\ writer = [c \in Conns |-> "off"]
    /\ conn = [c \in Conns |-> "none"]
    /\ send = [c \in Conns |-> <<>>]
    /\ held = [c \in Conns |-> <<>>]
    /\ sendClosed = [c \in Conns |-> FALSE]
    /\ subscriptions = [c \in Conns |-> {}]
    /\ unregistering = [c \in Conns |-> 0]
    /\ clients5 = {}
    /\ conn5 = [c \in Conns |-> "none"]
    /\ pump5 = [c \in Conns |-> "idle"]
    /\ sock5 = [c \in Conns |-> 0]
    /\ deadline5 = [c \in Conns |-> "none"]
    /\ run5 = [pc |-> "select", todo |-> {}, current |-> "none"]
    /\ caller5 = "idle"
    /\ ctx = "live"
    /\ loops = [l \in Loops |-> "running"]
    /\ mutex = [writer |-> FALSE, readers |-> 0]
    /\ runAt = [pc |-> "select", client |-> "none"]
    /\ callerAt = [pc |-> "idle", topic |-> "none"]
    /\ stop = [closed |-> FALSE, closes |-> 0]
    /\ stopOnce = [done |-> FALSE, m |-> "none"]
    /\ stopCalls = [s \in StopCallers |-> [pc |-> "idle", returned |-> 0]]
    /\ ticker = [started |-> FALSE, weekday |-> 0, hour |-> 0, recent |-> <<>>]

\* The state after construction, but for the head of the chain.
InitExceptChain ==
    /\ users = EmptyFn
    /\ swap_events = <<>>
    /\ points_history = <<>>
    /\ leaderboard = EmptyFn
    /\ campaign_config = <<[start_time |-> 0, end_time |-> CampaignDays, is_active |-> TRUE]>>
    /\ now = 0
    /\ InitControl

\* The program starts on a chain whose head is block 100.
Init == InitExceptChain /\ latestBlock = Lookback

\* The program starts on a chain that has fewer than 100 blocks, or just 100.
InitYoungChain == InitExceptChain /\ latestBlock \in YoungHead..Lookback

SetDB(d) ==
    /\ users' = d.users
    /\ swap_events' = d.swap_events
    /\ points_history' = d.points_history
    /\ leaderboard' = d.leaderboard
    /\ campaign_config' = d.campaign_config

\* Time passes between two handler invocations.
AdvanceClock ==
    /\ now + ClockStep <= MaxTime
    /\ now' = now + ClockStep
    /\ result' = NoResult
    /\ UNCHANGED <<dbvars, pollvars, netvars>>

\* cancel(): the context is cancelled; ctx.Done() is closed from now on.
Cancel ==
    /\ ctx = "live"
    /\ ctx' = "cancelled"
    /\ result' = NoResult
    /\ UNCHANGED <<dbvars, now, pollvars, wsvars, ws5vars, loops, lockvars, stopvars,
                   ticker>>

\* "case <-ctx.Done(): return" of a loop.  A select with several ready cases
\* takes any one of them, so this case competes with the loop's other cases.
LoopReturns(l) ==
    /\ ctx = "cancelled"
    /\ loops[l] = "running"
    /\ loops' = [loops EXCEPT ![l] = "returned"]
    /\ result' = NoResult
    /\ UNCHANGED <<dbvars, now, pollvars, wsvars, ws5vars, ctx, lockvars, stopvars,
                   ticker>>

(***************************************************************************)
(* SpecLegacy: package main, swaps recorded by RecordSwap.                 *)
(***************************************************************************)
LegacyRecordSwap ==
    \E log \in ChainLogs, f \in 0..3 :
        /\ Len(swap_events) < MaxSwaps
        /\ LET r == RecordSwap(DB, now, log.sender, log.usd, log.tx, f)
           IN /\ SetDB(r.db)
              /\ result' = [op |-> "RecordSwap", err |-> r.err, skipped |-> r.skipped]
        /\ UNCHANGED <<now, pollvars, netvars>>

LegacyWeekly ==
    \E order \in VolumeOrders(DB, now), f \in 0..2 :
        /\ Len(points_history) + Len(order) <= MaxHist
        /\ LET r == CalculateWeeklySharePoolPoints(DB, now, order, f)
           IN /\ SetDB(r.db)
              /\ result' = [op |-> "CalculateWeeklySharePoolPoints", err |-> r.err,
                            ran |-> r.ran, awards |-> r.awards,
                            totalVolume |-> r.totalVolume]
        /\ UNCHANGED <<now, pollvars, netvars>>

vars == <<users, swap_events, points_history, leaderboard, campaign_config, now, result,
          latestBlock, lastProcessedBlock, fetchedRanges, wsvars, ws5vars, ctlvars>>

NextLegacy == LegacyRecordSwap \/ LegacyWeekly \/ AdvanceClock

SpecLegacy == Init /\ [][NextLegacy]_vars

(***************************************************************************)
(* SpecLaterWeek: package main in the third week of the campaign.  Three   *)
(* users completed onboarding on day 0 and the weekly task has not paid    *)
(* anything yet; a fourth user has never swapped.                          *)
(***************************************************************************)
LaterUsers == {"A", "B", "C", "D"}

OnboardedOrder == <<"A", "B", "C">>

\* USD values of the swaps of the later weeks.
LaterAmounts == {1, OnboardingThreshold - 1, 30 * OnboardingThreshold}

InitLaterWeek ==
    /\ users = [a \in {"A", "B", "C"} |->
                   [onboarding_completed |-> TRUE, onboarding_points |-> OnboardingPoints,
                    total_points |-> 0]]
    /\ swap_events = [i \in 1..3 |->
                         [user |-> OnboardedOrder[i], transaction_hash |-> i,
                          amount_usd |-> OnboardingThreshold, timestamp |-> 0]]
    /\ points_history = [i \in 1..3 |->
                            [user |-> OnboardedOrder[i], points |-> OnboardingPoints,
                             reason |-> "Onboarding task completed"]]
    /\ leaderboard = EmptyFn
    /\ campaign_config = <<[start_time |-> 0, end_time |-> CampaignDays, is_active |-> TRUE]>>
    /\ now = LaterStart
    /\ InitControl
    /\ latestBlock = Lookback

LaterRecordSwap ==
    \E a \in LaterUsers, usd \in LaterAmounts, f \in 0..3 :
        /\ Len(swap_events) < MaxLaterSwaps
        /\ LET r == RecordSwap(DB, now, a, usd, Len(swap_events) + 1, f)
           IN /\ SetDB(r.db)
              /\ result' = [op |-> "RecordSwap", err |-> r.err, skipped |-> r.skipped]
        /\ UNCHANGED <<now, pollvars, netvars>>

\* The weekly task; the result keeps the list the eligible-users query
\* returned (the volume of each row) next to the awards.
LaterWeekly ==
    \E order \in VolumeOrders(DB, now), f \in 0..2 :
        /\ Len(points_history) + Len(order) <= MaxLaterHist
        /\ LET r == CalculateWeeklySharePoolPoints(DB, now, order, f)
           IN /\ SetDB(r.db)
              /\ result' = [op |-> "CalculateWeeklySharePoolPoints", err |-> r.err,
                            ran |-> r.ran, awards |-> r.awards,
                            volumes |-> [i \in 1..Len(order) |->
                                            UserVolume(DB, now, order[i])]]
        /\ UNCHANGED <<now, pollvars, netvars>>

NextLaterWeek == LaterRecordSwap \/ LaterWeekly \/ AdvanceClock

SpecLaterWeek == InitLaterWeek /\ [][NextLaterWeek]_vars

\* C34: every amount a weekly run awards, the remainder given to the last
\* user of the ordered list included, is at least 1 point.
C34_EveryAwardAtLeastOne ==
    (result.op = "CalculateWeeklySharePoolPoints" /\ result.ran)
        => \A i \in 1..Len(result.awards) : result.awards[i] >= 1

\* C35: within one weekly run a user with strictly larger window volume
\* never receives fewer points than a user with smaller window volume.
C35_LargerVolumeNotFewerPoints ==
    (result.op = "CalculateWeeklySharePoolPoints" /\ result.ran)
        => \A i, j \in 1..Len(result.awards) :
              result.volumes[i] > result.volumes[j]
                  => result.awards[i] >= result.awards[j]

\* USD values around the onboarding threshold.
OnboardingAmounts == {OnboardingThreshold - 1, OnboardingThreshold, OnboardingThreshold + 1}

\* RecordSwap called with a swap of any sender and an amount around the
\* threshold, under a transaction hash not recorded before.
ThresholdRecordSwap ==
    \E address \in Addrs, amountUSD \in OnboardingAmounts, f \in 0..3 :
        /\ Len(swap_events) < MaxSwaps
        /\ LET r == RecordSwap(DB, now, address, amountUSD,
                               Cardinality(TxHashes) + Len(swap_events) + 1, f)
           IN /\ SetDB(r.db)
              /\ result' = [op |-> "thresholdSwap", err |-> r.err, skipped |-> r.skipped,
                            address |-> address, amountUSD |-> amountUSD]
        /\ UNCHANGED <<now, pollvars, netvars>>

NextThreshold == ThresholdRecordSwap \/ AdvanceClock

SpecThreshold == Init /\ [][NextThreshold]_vars

(***************************************************************************)
(* Claims settled under SpecLegacy.                                        *)
(***************************************************************************)
HistoryOf(a, reason) ==
    SelectSeq(points_history, LAMBDA h : h.user = a /\ h.reason = reason)

QualifyingSwaps(a) ==
    SelectSeq(swap_events, LAMBDA r : r.user = a /\ r.amount_usd >= OnboardingThreshold)

\* C4: whenever a weekly distribution finds nonzero total volume in its window
\* and commits, the points it awards in that run sum to exactly 10000.
C4_AwardsSumToPool ==
    (result.op = "CalculateWeeklySharePoolPoints" /\ result.ran)
        => SumInts(result.awards) = SharePool

\* C5: for every user the onboarding bonus (100 points and one onboarding
\* points-history entry) is awarded at most once, by the first recorded swap
\* of at least 1000 USD, and never again by later qualifying swaps.
C5_OnboardingAtMostOnce ==
    \A a \in DOMAIN users :
        /\ Len(HistoryOf(a, "Onboarding task completed")) <= 1
        /\ users[a].onboarding_completed
              <=> Len(HistoryOf(a, "Onboarding task completed")) = 1
        /\ users[a].onboarding_completed <=> QualifyingSwaps(a) # <<>>
        /\ users[a].onboarding_points =
              (IF users[a].onboarding_completed THEN OnboardingPoints ELSE 0)

\* C5 witness: a user with two recorded qualifying swaps holds one bonus.
C5_Witness ==
    \E a \in DOMAIN users :
        /\ Len(QualifyingSwaps(a)) >= 2
        /\ Len(HistoryOf(a, "Onboarding task completed")) = 1
        /\ users[a].onboarding_points = OnboardingPoints

\* The onboarding flag of an address, FALSE (the column default) without a row.
OnboardingCompleted(us, a) == a \in DOMAIN us /\ us[a].onboarding_completed

\* C22: a recorded swap sets the onboarding-completed flag, awards exactly
\* 100 onboarding points and appends one onboarding history entry if and only
\* if its USD value is at least 1000 (1000 included) and the flag was unset;
\* otherwise flag, onboarding points and onboarding entries stay as they were.
C22_OnboardingIffThresholdAndUnset ==
    [][(result'.op = "thresholdSwap" /\ ~result'.err /\ ~result'.skipped) =>
        LET a == result'.address
            before == HistoryOf(a, "Onboarding task completed")
            after == SelectSeq(points_history',
                        LAMBDA h : h.user = a /\ h.reason = "Onboarding task completed")
        IN IF result'.amountUSD >= OnboardingThreshold /\ ~OnboardingCompleted(users, a)
           THEN /\ users'[a].onboarding_completed
                /\ users'[a].onboarding_points = OnboardingPoints
                /\ Len(after) = Len(before) + 1
                /\ after[Len(after)].points = OnboardingPoints
           ELSE /\ users'[a].onboarding_completed = OnboardingCompleted(users, a)
                /\ users'[a].onboarding_points =
                      (IF a \in DOMAIN users THEN users[a].onboarding_points ELSE 0)
                /\ after = before
                /\ \A b \in DOMAIN users : users'[b] = users[b]]_vars

\* C22 witness: a swap of exactly 1000 USD was recorded for a user with no
\* earlier qualifying swap, and the user holds the flag and the bonus.
C22_Witness ==
    /\ result.op = "thresholdSwap" /\ ~result.err /\ ~result.skipped
    /\ result.amountUSD = OnboardingThreshold
    /\ Len(QualifyingSwaps(result.address)) = 1
    /\ users[result.address].onboarding_completed
    /\ users[result.address].onboarding_points = OnboardingPoints

\* C17: a weekly run inside the campaign whose week reaches past the
\* campaign's end time (now + 7 days after end_time) leaves the campaign
\* with is_active = false when it returns without error, and leaves payouts
\* and campaign as they were when it returns an error.
C17_LastWeekRunDeactivates ==
    [][(/\ result'.op = "CalculateWeeklySharePoolPoints"
        /\ ~OutsideCampaign(GetCampaignConfig(DB), now)
        /\ now + WeekDays > GetCampaignConfig(DB).end_time)
       => IF result'.err
          THEN points_history' = points_history /\ campaign_config' = campaign_config
          ELSE ~campaign_config'[Len(campaign_config')].is_active]_vars

\* C7: recording a swap is all-or-nothing: a failed invocation leaves no user
\* row, swap-event row, points-history entry, total or leaderboard change.
C7_RecordSwapAllOrNothing ==
    [][(result'.op = "RecordSwap" /\ result'.err) => UNCHANGED dbvars]_vars

(***************************************************************************)
(* internal/db: DBServiceImpl.                                             *)
(***************************************************************************)
\* INSERT INTO users (address, total_points) VALUES ($1, $2)
\* ON CONFLICT (address) DO UPDATE SET total_points = users.total_points + $2
UpsertUserPoints(us, a, p) ==
    [x \in DOMAIN us \cup {a} |->
        IF x = a
        THEN (IF a \in DOMAIN us THEN [us[a] EXCEPT !.total_points = @ + p]
              ELSE [NewUser EXCEPT !.total_points = p])
        ELSE us[x]]

\* INSERT INTO swap_events (sender, amount_usd, transaction_hash, timestamp):
\* the table carries no uniqueness constraint on transaction_hash.
InsertSwapEvent(rows, t, address, usdValue, txHash) ==
    Append(rows, [user |-> address, transaction_hash |-> txHash,
                  amount_usd |-> usdValue, timestamp |-> t])

\* The four statements between Begin and Commit.
RecordSwapAndUpdatePointsTx(d, t, address, usdValue, points, txHash) ==
    [d EXCEPT
        !.swap_events = InsertSwapEvent(@, t, address, usdValue, txHash),
        !.users = UpsertUserPoints(@, address, points),
        !.points_history = Append(@, [user |-> address, points |-> points,
                                      reason |-> "Swap"]),
        !.leaderboard = UpsertLeaderboard(@, address, points)]

\* fails: some statement of the transaction (Begin ... Commit) returns an
\* error, and the deferred tx.Rollback() undoes the others.
RecordSwapAndUpdatePoints(d, t, address, usdValue, points, txHash, fails) ==
    IF fails THEN [db |-> d, err |-> TRUE]
    ELSE [db |-> RecordSwapAndUpdatePointsTx(d, t, address, usdValue, points, txHash),
          err |-> FALSE]

\* DBServiceImpl.UpdateLeaderboard: one statement on s.db.
UpdateLeaderboard(d, address, points, fails) ==
    IF fails THEN [db |-> d, err |-> TRUE]
    ELSE [db |-> [d EXCEPT !.leaderboard = UpsertLeaderboard(@, address, points)],
          err |-> FALSE]

\* WHERE timestamp >= NOW() - INTERVAL '7 days'
SvcWindowRows(d, t) == SelectSeq(d.swap_events, LAMBDA r : r.timestamp >= t - WeekDays)

SvcUserVolume(d, t, a) ==
    SumAmounts(SelectSeq(SvcWindowRows(d, t), LAMBDA r : r.user = a))

\* GROUP BY user_address: the users with a row in the window.
SvcGroups(d, t) ==
    {SvcWindowRows(d, t)[i].user : i \in 1..Len(SvcWindowRows(d, t))}

\* Every order in which the grouped rows can come back.
SvcGroupOrders(d, t) ==
    LET G == SvcGroups(d, t)
        n == Cardinality(G)
    IN {o \in [1..n -> G] : \A i, j \in 1..n : i # j => o[i] # o[j]}

RECURSIVE SvcPay(_, _, _, _)
\* The loop over the grouped rows: users.total_points and points_history.
SvcPay(d, t, order, total) ==
    IF order = <<>> THEN d
    ELSE LET a == Head(order)
             points == ProRata(SvcUserVolume(d, t, a), total)
         IN SvcPay([d EXCEPT
                       !.users = [x \in DOMAIN @ |->
                                     IF x = a THEN [@[x] EXCEPT !.total_points = @ + points]
                                     ELSE @[x]],
                       !.points_history = Append(@, [user |-> a, points |-> points,
                                                     reason |-> "Weekly Share Pool"])],
                   t, Tail(order), total)

\* DBServiceImpl.CalculateWeeklySharePoolPoints.
SvcCalculateWeeklySharePoolPoints(d, t, order, fails) ==
    LET total == SumAmounts(SvcWindowRows(d, t))
    IN IF fails THEN [db |-> d, err |-> TRUE]
       ELSE IF total = 0 THEN [db |-> d, err |-> FALSE]
       ELSE [db |-> SvcPay(d, t, order, total), err |-> FALSE]

\* DBServiceImpl.EndCampaign
EndCampaign(d, id) == [d EXCEPT !.campaign_config[id].is_active = FALSE]

(***************************************************************************)
(* internal/ethereum: FetchSwapEvents, ProcessSwapEvents.                  *)
(***************************************************************************)
RECURSIVE InBlockOrder(_)
\* A set of logs as a sequence, lowest block first.
InBlockOrder(logs) ==
    IF logs = {} THEN <<>>
    ELSE LET first == CHOOSE l \in logs : \A m \in logs : l.block <= m.block
         IN <<first>> \o InBlockOrder(logs \ {first})

\* FilterLogs over [fromBlock, toBlock], in block order.
LogsInRange(fromBlock, toBlock) ==
    InBlockOrder({l \in ChainLogs : fromBlock <= l.block /\ l.block <= toBlock})

\* usdValue.Quo(usdValue, big.NewFloat(10)): the receiver is the argument, so
\* the event's USDValue itself becomes a tenth of what it was.
UsdAfterPoints(usd) == usd \div 10

\* calculatePointsForSwap
CalculatePointsForSwap(usd) == Max(usd \div 10, 1)

EventOutcomes == {"ok", "record_err", "leaderboard_err", "get_leaderboard_err"}

\* What ProcessSwapEvents returns after a failed RecordSwapAndUpdatePoints:
\* it logs, continues with the next event and ends with "return nil".
ProcessErrAfterRecordFailure == FALSE

RECURSIVE ProcessSwapEvents(_, _, _, _, _)
\* The loop over the events; outcome[i] says which call fails for event i.
\* acc carries the tables, the notifications sent and the failures seen.
ProcessSwapEvents(events, outcome, i, t, acc) ==
    IF i > Len(events) THEN acc
    ELSE LET e == events[i]
             n1 == Append(acc.notes, [type |-> "swap_event", tx |-> e.tx])
             points == CalculatePointsForSwap(e.usd)
             rec == RecordSwapAndUpdatePoints(acc.db, t, e.sender, UsdAfterPoints(e.usd),
                                              points, e.tx, outcome[i] = "record_err")
             n2 == Append(n1, [type |-> "user_points_update", address |-> e.sender,
                               points |-> points])
             upd == UpdateLeaderboard(rec.db, e.sender, points,
                                      outcome[i] = "leaderboard_err")
             n3 == Append(n2, [type |-> "leaderboard_update"])
         IN IF rec.err
            THEN ProcessSwapEvents(events, outcome, i + 1, t,
                    [acc EXCEPT !.notes = n1, !.recordFailed = TRUE,
                                !.err = @ \/ ProcessErrAfterRecordFailure])
            ELSE IF upd.err
            THEN ProcessSwapEvents(events, outcome, i + 1, t,
                    [acc EXCEPT !.db = rec.db, !.notes = n2])
            ELSE IF outcome[i] = "get_leaderboard_err"
            THEN ProcessSwapEvents(events, outcome, i + 1, t,
                    [acc EXCEPT !.db = upd.db, !.notes = n2])
            ELSE ProcessSwapEvents(events, outcome, i + 1, t,
                    [acc EXCEPT !.db = upd.db, !.notes = n3])

(***************************************************************************)
(* cmd/tradingace: processEthereumEvents, manageCampaign.                  *)
(***************************************************************************)
\* Block numbers are uint64.  A number below zero stands for the uint64
\* that many below 2^64, which is what a subtraction below zero wraps to;
\* a <= b on uint64 then puts every such number above the others.
U64Leq(a, b) == IF (a < 0) = (b < 0) THEN a <= b ELSE b < 0

\* lastProcessedBlock = latestBlock - 100 on the first run
FirstCursor(latest) == latest - Lookback

\* A cursor moved to the head of the chain although the fetch failed.
CursorAdvancedOnFetchError(cur, latest) == latest

\* FetchSwapEvents fails: the closure returns before
\* "lastProcessedBlock = latestBlock", after the first-run initialisation.
CursorAfterFetchError(cur, latest) == cur

\* One tick of processEthereumEvents.  chainErr: 0 none, 1 GetLatestBlockNumber
\* fails, 2 FetchSwapEvents fails.
PollerTick(d, t, latest, cursor, chainErr, outcome) ==
    LET cur == IF cursor = 0 THEN FirstCursor(latest) ELSE cursor
        events == LogsInRange(cur + 1, latest)
        start == [db |-> d, notes |-> <<>>, recordFailed |-> FALSE, err |-> FALSE]
        done == ProcessSwapEvents(events, outcome, 1, t, start)
        idle == [db |-> d, cursor |-> cur, fetched |-> FALSE, from |-> 0, to |-> 0,
                 notes |-> <<>>, recordFailed |-> FALSE, err |-> FALSE]
    IN IF chainErr = 1 THEN [idle EXCEPT !.cursor = cursor, !.err = TRUE]
       ELSE IF U64Leq(latest, cur) THEN idle
       ELSE IF chainErr = 2
       THEN [idle EXCEPT !.err = TRUE, !.cursor = CursorAfterFetchError(cur, latest)]
       ELSE [db |-> done.db,
             cursor |-> IF done.err THEN cur ELSE latest,
             fetched |-> TRUE, from |-> cur + 1, to |-> latest,
             notes |-> done.notes, recordFailed |-> done.recordFailed,
             err |-> done.err]

\* The ranges of the last MaxRanges completed ticks, with the newest added.
RememberRange(ranges, from, to) ==
    LET all == Append(ranges, [from |-> from, to |-> to])
    IN IF Len(all) > MaxRanges THEN Tail(all) ELSE all

\* The number of events the tick would hand to ProcessSwapEvents.
BatchSize(latest, cursor) ==
    Len(LogsInRange((IF cursor = 0 THEN FirstCursor(latest) ELSE cursor) + 1, latest))

SvcTick ==
    \E chainErr \in 0..2 :
    \E outcome \in [1..BatchSize(latestBlock, lastProcessedBlock) -> EventOutcomes] :
        LET r == PollerTick(DB, now, latestBlock, lastProcessedBlock, chainErr, outcome)
        IN /\ loops["poller"] = "running"
           /\ Len(r.db.swap_events) <= MaxSwaps
           /\ Len(r.db.points_history) <= MaxHist
           /\ SetDB(r.db)
           /\ lastProcessedBlock' = r.cursor
           /\ fetchedRanges' = IF r.fetched /\ ~r.err
                               THEN RememberRange(fetchedRanges, r.from, r.to)
                               ELSE fetchedRanges
           /\ result' = [op |-> "tick", err |-> r.err, fetched |-> r.fetched,
                         from |-> r.from, to |-> r.to, notes |-> r.notes,
                         recordFailed |-> r.recordFailed,
                         afterCancel |-> ctx = "cancelled"]
           /\ UNCHANGED <<now, latestBlock, netvars>>

\* The chain grows by one block.
SvcNewBlock ==
    /\ latestBlock < MaxBlock
    /\ latestBlock' = latestBlock + 1
    /\ result' = NoResult
    /\ UNCHANGED <<dbvars, now, lastProcessedBlock, fetchedRanges, netvars>>

\* The process is restarted: processEthereumEvents starts again with
\* "var lastProcessedBlock uint64"; the tables are kept.
SvcRestart ==
    /\ lastProcessedBlock # 0
    /\ lastProcessedBlock' = 0
    /\ result' = NoResult
    /\ UNCHANGED <<dbvars, now, latestBlock, fetchedRanges, netvars>>

\* One daily tick of manageCampaign.  sundayMidnight: now.Weekday() ==
\* time.Sunday && now.Hour() == 0.  endErr, calcErr: the call returns an error.
SvcManageCampaign ==
    \E sundayMidnight \in BOOLEAN, endErr \in BOOLEAN, calcErr \in BOOLEAN :
    \E order \in SvcGroupOrders(DB, now) :
        LET campaign == GetCampaignConfig(DB)
            ended == IF campaign.is_active /\ now > campaign.end_time /\ ~endErr
                     THEN EndCampaign(DB, Len(campaign_config)) ELSE DB
            r == IF sundayMidnight
                 THEN SvcCalculateWeeklySharePoolPoints(ended, now, order, calcErr)
                 ELSE [db |-> ended, err |-> FALSE]
        IN /\ loops["campaign"] = "running"
           /\ Len(r.db.points_history) <= MaxHist
           /\ SetDB(r.db)
           /\ result' = [op |-> "manageCampaign", err |-> r.err, weekly |-> sundayMidnight,
                         afterCancel |-> ctx = "cancelled"]
           /\ UNCHANGED <<now, pollvars, netvars>>

\* The hours of the day at which the process may be started.
StartHours == {0, 13}

\* time.Weekday of the day t days after a day of weekday w (Sunday = 0).
Weekday(w, t) == (w + t) % WeekDays

\* "now.Weekday() == time.Sunday && now.Hour() == 0" at a tick of the ticker
\* that was started on weekday w at hour h, t days later.
IsSundayMidnight(w, h, t) == Weekday(w, t) = 0 /\ h = 0

\* The last WeekDays ticks, the newest last.
LastTicks(ticks) ==
    IF Len(ticks) > WeekDays THEN SubSeq(ticks, Len(ticks) - WeekDays + 1, Len(ticks))
    ELSE ticks

\* manageCampaign: "ticker := time.NewTicker(24 * time.Hour)", on whatever
\* weekday and at whatever hour the process starts.
NewTicker ==
    \E w \in 0..(WeekDays - 1), h \in StartHours :
        /\ ~ticker.started
        /\ ticker' = [started |-> TRUE, weekday |-> w, hour |-> h, recent |-> <<>>]
        /\ result' = NoResult
        /\ UNCHANGED <<dbvars, now, pollvars, wsvars, ws5vars, ctx, loops, lockvars, stopvars>>

\* The tick 24 hours after the last one, and manageCampaign's work on it.
DailyCampaignTick ==
    \E endErr \in BOOLEAN, calcErr \in BOOLEAN :
    \E order \in SvcGroupOrders(DB, now + 1) :
        LET t == now + 1
            campaign == GetCampaignConfig(DB)
            sundayMidnight == IsSundayMidnight(ticker.weekday, ticker.hour, t)
            ended == IF campaign.is_active /\ t > campaign.end_time /\ ~endErr
                     THEN EndCampaign(DB, Len(campaign_config)) ELSE DB
            r == IF sundayMidnight
                 THEN SvcCalculateWeeklySharePoolPoints(ended, t, order, calcErr)
                 ELSE [db |-> ended, err |-> FALSE]
        IN /\ ticker.started
           /\ loops["campaign"] = "running"
           /\ t <= MaxTime
           /\ now' = t
           /\ SetDB(r.db)
           /\ ticker' = [ticker EXCEPT !.recent =
                            LastTicks(Append(@, [weekly |-> sundayMidnight,
                                                 active |-> ~OutsideCampaign(campaign, t)]))]
           /\ result' = [op |-> "manageCampaign", err |-> r.err, weekly |-> sundayMidnight,
                         afterCancel |-> ctx = "cancelled"]
           /\ UNCHANGED <<pollvars, wsvars, ws5vars, ctx, loops, lockvars, stopvars>>

\* The campaign manager from the start of the process, day after day.
NextCalendar == NewTicker \/ DailyCampaignTick

SpecCalendar == Init /\ [][NextCalendar]_vars

(***************************************************************************)
(* SpecWeeklyTask: package main (legacy), runWeeklySharePoolTask.  The     *)
(* clock counts days; ticker holds the weekday of day 0 (0 is Sunday, as   *)
(* time.Weekday has it) and the hour of the day it is now.                 *)
(***************************************************************************)
\* getNextMonday on day "day", whose weekday is "weekday": the day whose
\* 00:00 UTC it returns.
GetNextMonday(weekday, day) ==
    LET daysUntilMonday == IF weekday = 0 THEN 1 ELSE WeekDays - weekday
    IN day + daysUntilMonday

\* main: "go runWeeklySharePoolTask(wsManager)", on whatever weekday and at
\* whatever hour the process starts.
StartWeeklyTask ==
    \E w \in 0..(WeekDays - 1), h \in StartHours :
        /\ ~ticker.started
        /\ ticker' = [started |-> TRUE, weekday |-> w, hour |-> h, recent |-> <<>>]
        /\ result' = NoResult
        /\ UNCHANGED <<dbvars, now, pollvars, wsvars, ws5vars, ctx, loops, lockvars, stopvars>>

\* One round of the loop: getNextMonday, the sleep until that instant, the
\* weekly calculation and the leaderboard broadcast (no client is connected).
WeeklyTaskRound ==
    LET next == GetNextMonday(Weekday(ticker.weekday, now), now)
    IN \E order \in VolumeOrders(DB, next), f \in 0..2 :
        /\ ticker.started
        /\ next <= MaxTime
        /\ Len(points_history) + Len(order) <= MaxHist
        /\ now' = next
        /\ ticker' = [ticker EXCEPT !.hour = 0]
        /\ SetDB(CalculateWeeklySharePoolPoints(DB, next, order, f).db)
        /\ result' = [op |-> "getNextMonday", day |-> now, hour |-> ticker.hour,
                      next |-> next,
                      err |-> CalculateWeeklySharePoolPoints(DB, next, order, f).err]
        /\ UNCHANGED <<pollvars, wsvars, ws5vars, ctx, loops, lockvars, stopvars>>

\* A swap is recorded while the weekly task sleeps.
WeeklyTaskRecordSwap ==
    /\ ticker.started
    /\ swap_events = <<>>
    /\ LegacyRecordSwap

NextWeeklyTask == StartWeeklyTask \/ WeeklyTaskRound \/ WeeklyTaskRecordSwap

SpecWeeklyTask == Init /\ [][NextWeeklyTask]_vars

\* C39: whatever the weekday and the time of day, getNextMonday returns a
\* 00:00 UTC instant that falls on a Monday, lies strictly after the current
\* time and is at most 7 days ahead.
C39_NextMondayIsMonday ==
    result.op = "getNextMonday" =>
        LET current == result.day * HoursPerDay + result.hour
            returned == result.next * HoursPerDay
        IN /\ Weekday(ticker.weekday, result.next) = Monday
           /\ returned > current
           /\ returned - current <= WeekDays * HoursPerDay

\* The poller on a chain that starts young and grows.
NextFirstRun == SvcTick \/ SvcNewBlock

SpecFirstRun == InitYoungChain /\ [][NextFirstRun]_vars

\* The poller with the chain and process restarts.
NextSvc == SvcTick \/ SvcNewBlock \/ SvcRestart

SpecSvc == Init /\ [][NextSvc]_vars

\* The poller and the campaign manager over the calendar.
NextSvcCampaign == SvcTick \/ SvcNewBlock \/ SvcManageCampaign \/ AdvanceClock

SpecSvcCampaign == Init /\ [][NextSvcCampaign]_vars

\* The poller and the campaign manager with main's cancel(): each loop is a
\* select over ctx.Done() and its ticker, and a tick is one action.
NextSvcCancel ==
    \/ SvcTick \/ SvcNewBlock \/ SvcManageCampaign \/ AdvanceClock
    \/ Cancel
    \/ \E l \in {"poller", "campaign"} : LoopReturns(l)

SpecSvcCancel == Init /\ [][NextSvcCancel]_vars

\* The USD values calculateUSDValue hands to ProcessSwapEvents.
SwapAmounts == {1500, 50}

\* ProcessSwapEvents on a batch of one Swap log: a log not seen before, of
\* any sender and value, with every outcome of the Ledger calls.
SvcProcessSwapEvents ==
    \E sender \in Addrs, usd \in SwapAmounts, outcome \in EventOutcomes :
        LET e == [block |-> latestBlock,
                  tx |-> Cardinality(TxHashes) + Len(swap_events) + 1,
                  sender |-> sender, usd |-> usd]
            start == [db |-> DB, notes |-> <<>>, recordFailed |-> FALSE, err |-> FALSE]
            done == ProcessSwapEvents(<<e>>, <<outcome>>, 1, now, start)
        IN /\ Len(done.db.swap_events) <= MaxSwaps
           /\ Len(done.db.points_history) <= MaxHist
           /\ SetDB(done.db)
           /\ result' = [op |-> "ProcessSwapEvents", err |-> done.err,
                         event |-> e, outcome |-> outcome, notes |-> done.notes]
           /\ UNCHANGED <<now, pollvars, netvars>>

\* Swap logs handed to ProcessSwapEvents one at a time.
NextSvcSwaps == SvcProcessSwapEvents

SpecSvcSwaps == Init /\ [][NextSvcSwaps]_vars

(***************************************************************************)
(* package main: the poller that looks back 100 blocks on every tick.      *)
(***************************************************************************)
\* fromBlock := latestBlock - 100 (latestBlock is a uint64, so the test
\* "fromBlock < 0" never holds); heads below 100 are not explored.
LegacyFromBlock(latest) == latest - Lookback

RECURSIVE LegacyProcessSwapEvents(_, _, _, _, _)
\* ProcessSwapEvents(logs): RecordSwap per log, an error is logged and the
\* loop continues.  fs[i]: the failure point of RecordSwap for the i-th log.
LegacyProcessSwapEvents(events, fs, i, t, d) ==
    IF i > Len(events) THEN d
    ELSE LET e == events[i]
         IN LegacyProcessSwapEvents(events, fs, i + 1, t,
                RecordSwap(d, t, e.sender, e.usd, e.tx, fs[i]).db)

\* One round of the poller.  chainErr: 0 none, 1 the head cannot be read,
\* 2 FetchSwapEvents fails (both: log, wait, continue).
LegacyPollerTick ==
    \E chainErr \in 0..2 :
        LET from == LegacyFromBlock(latestBlock)
            events == LogsInRange(from, latestBlock)
        IN \E fs \in [1..Len(events) -> 0..3] :
            LET d == IF chainErr = 0
                     THEN LegacyProcessSwapEvents(events, fs, 1, now, DB)
                     ELSE DB
            IN /\ Len(d.swap_events) <= MaxSwaps
               /\ Len(d.points_history) <= MaxHist
               /\ SetDB(d)
               /\ fetchedRanges' = IF chainErr = 0
                                   THEN RememberRange(fetchedRanges, from, latestBlock)
                                   ELSE fetchedRanges
               /\ result' = [op |-> "legacyTick", err |-> chainErr # 0,
                             from |-> from, to |-> latestBlock]
               /\ UNCHANGED <<now, latestBlock, lastProcessedBlock, netvars>>

NextLegacyPoller == LegacyPollerTick \/ SvcNewBlock \/ AdvanceClock

SpecLegacyPoller == Init /\ [][NextLegacyPoller]_vars

(***************************************************************************)
(* internal/ethereum: raw logs, their decoding and the batch they form.    *)
(***************************************************************************)
\* A raw log as the filter returns it: its number of topics, whether
\* Topics[0] is the Swap signature, and the length of its data in bytes.
RawShapes == [topics : {SwapTopics - 1, SwapTopics}, signature : BOOLEAN,
              data : {SwapDataLen - 32, SwapDataLen}]

\* The raw batches explored: BatchLen logs of any shape from one sender,
\* with transaction hashes no earlier batch of a recorded swap carried.
RawBatches ==
    {[i \in 1..BatchLen |->
        [topics |-> shape[i].topics, signature |-> shape[i].signature,
         data |-> shape[i].data, block |-> latestBlock,
         tx |-> Cardinality(TxHashes) + BatchLen * Len(swap_events) + i,
         sender |-> sender, usd |-> OnboardingThreshold]] :
     shape \in [1..BatchLen -> RawShapes], sender \in Addrs}

\* "len(vLog.Topics) != 3 || vLog.Topics[0] != SwapEventSignature"
NotSwapLog(l) == l.topics # SwapTopics \/ ~l.signature

\* ParseSwapEvent: "if len(vLog.Data) != 128" returns an error.
ParseSwapEventFails(l) == l.data # SwapDataLen

\* parseSwapEvent of the ProcessSwapEvents that takes raw logs:
\* UnpackIntoInterface needs the four 32-byte words of the payload.
UnpackFails(l) == l.data < SwapDataLen

RawEvent(l) == [block |-> l.block, tx |-> l.tx, sender |-> l.sender, usd |-> l.usd]

RECURSIVE DecodeLogs(_)
\* The loop of FetchSwapEvents: a log that is no Swap log or that
\* ParseSwapEvent rejects is skipped ("continue").
DecodeLogs(logs) ==
    IF logs = <<>> THEN <<>>
    ELSE IF NotSwapLog(Head(logs)) \/ ParseSwapEventFails(Head(logs))
    THEN DecodeLogs(Tail(logs))
    ELSE <<RawEvent(Head(logs))>> \o DecodeLogs(Tail(logs))

\* A tick's work on a raw batch in internal/ethereum: FetchSwapEvents decodes,
\* ProcessSwapEvents handles the decoded events.
SvcRawBatch ==
    \E logs \in RawBatches :
        LET events == DecodeLogs(logs)
        IN \E callFails \in EventOutcomes :
            LET outcome == [i \in 1..Len(events) |-> callFails]
                start == [db |-> DB, notes |-> <<>>, recordFailed |-> FALSE, err |-> FALSE]
                done == ProcessSwapEvents(events, outcome, 1, now, start)
            IN /\ Len(swap_events) + BatchLen <= MaxSwaps
               /\ Len(done.db.points_history) <= MaxHist
               /\ SetDB(done.db)
               /\ result' = [op |-> "rawBatch", err |-> done.err, batch |-> logs,
                             ledgerOk |-> callFails = "ok"]
               /\ UNCHANGED <<now, pollvars, netvars>>

NextDecode == SvcRawBatch

SpecDecode == Init /\ [][NextDecode]_vars

RECURSIVE ProcessRawLogs(_, _, _, _, _)
\* ProcessSwapEvents(logs []types.Log, ...): a log that is no Swap log is
\* skipped; a parse error and every error of the Ledger or the Broadcaster
\* end the loop with "return fmt.Errorf(...)".
ProcessRawLogs(logs, outcome, i, t, acc) ==
    IF i > Len(logs) THEN acc
    ELSE LET l == logs[i]
             points == CalculatePointsForSwap(l.usd)
             rec == RecordSwapAndUpdatePoints(acc.db, t, l.sender, UsdAfterPoints(l.usd),
                                              points, l.tx, outcome[i] = "record_err")
             upd == UpdateLeaderboard(rec.db, l.sender, points,
                                      outcome[i] = "leaderboard_err")
         IN IF NotSwapLog(l) THEN ProcessRawLogs(logs, outcome, i + 1, t, acc)
            ELSE IF UnpackFails(l) THEN [acc EXCEPT !.err = TRUE]
            ELSE IF rec.err THEN [acc EXCEPT !.err = TRUE]
            ELSE IF upd.err THEN [acc EXCEPT !.db = rec.db, !.err = TRUE]
            ELSE IF outcome[i] = "get_leaderboard_err"
            THEN [acc EXCEPT !.db = upd.db, !.err = TRUE]
            ELSE ProcessRawLogs(logs, outcome, i + 1, t, [acc EXCEPT !.db = upd.db])

\* A tick's work on a raw batch handed to that ProcessSwapEvents.
RawBatch7 ==
    \E logs \in RawBatches :
    \E callFails \in EventOutcomes :
        LET outcome == [i \in 1..BatchLen |-> callFails]
            done == ProcessRawLogs(logs, outcome, 1, now, [db |-> DB, err |-> FALSE])
        IN /\ Len(swap_events) + BatchLen <= MaxSwaps
           /\ Len(done.db.points_history) <= MaxHist
           /\ SetDB(done.db)
           /\ result' = [op |-> "rawBatch", err |-> done.err, batch |-> logs,
                         ledgerOk |-> callFails = "ok"]
           /\ UNCHANGED <<now, pollvars, netvars>>

NextDecode7 == RawBatch7

SpecDecode7 == Init /\ [][NextDecode7]_vars

\* SetCampaignConfig(startTime): one INSERT of an active row that ends four
\* weeks after its start; no other row is touched.
SetCampaignConfig(d, startTime, fails) ==
    IF fails THEN [db |-> d, err |-> TRUE]
    ELSE [db |-> [d EXCEPT !.campaign_config =
                    Append(@, [start_time |-> startTime,
                               end_time |-> startTime + CampaignDays,
                               is_active |-> TRUE])],
          err |-> FALSE]

\* A new campaign is started at the current time.
StartCampaign ==
    \E fails \in BOOLEAN :
        LET r == SetCampaignConfig(DB, now, fails)
        IN /\ Len(r.db.campaign_config) <= MaxCampaigns
           /\ SetDB(r.db)
           /\ result' = [op |-> "SetCampaignConfig", err |-> r.err]
           /\ UNCHANGED <<now, pollvars, netvars>>

NextCampaigns == StartCampaign \/ SvcManageCampaign \/ AdvanceClock

SpecCampaigns == Init /\ [][NextCampaigns]_vars

\* The four amounts of a Swap log: amount0 is the volatile token, amount1
\* the stable token with 6 decimals.
SwapAmountSets ==
    [amount0In : {0, WethUnits}, amount1In : {0, 1000 * UsdcDecimals},
     amount0Out : {0, WethUnits}, amount1Out : {0, 1000 * UsdcDecimals}]

\* calculateUSDValue(amount0In, amount1In, amount0Out, amount1Out):
\* amount1In / 1e6 + amount1Out / 1e6; amount0 is not read, no error exists.
CalculateUSDValue(a) ==
    [value |-> a.amount1In \div UsdcDecimals + a.amount1Out \div UsdcDecimals,
     err |-> FALSE]

\* ParseSwapEvent sets event.USDValue with calculateUSDValue; the event then
\* goes through ProcessSwapEvents.
SvcValuedSwap ==
    \E sender \in Addrs, amounts \in SwapAmountSets, outcome \in EventOutcomes :
        LET usd == CalculateUSDValue(amounts)
            e == [block |-> latestBlock,
                  tx |-> Cardinality(TxHashes) + Len(swap_events) + 1,
                  sender |-> sender, usd |-> usd.value]
            start == [db |-> DB, notes |-> <<>>, recordFailed |-> FALSE, err |-> FALSE]
            done == IF usd.err THEN start
                    ELSE ProcessSwapEvents(<<e>>, <<outcome>>, 1, now, start)
        IN /\ Len(done.db.swap_events) <= MaxSwaps
           /\ Len(done.db.points_history) <= MaxHist
           /\ SetDB(done.db)
           /\ result' = [op |-> "valuedSwap", amounts |-> amounts,
                         value |-> usd.value, err |-> usd.err]
           /\ UNCHANGED <<now, pollvars, netvars>>

NextValue == SvcValuedSwap

SpecValue == Init /\ [][NextValue]_vars

\* calculatePoints: int64(usdValue / 10), the conversion truncates.
CalculatePoints(usdValue) == usdValue \div 10

\* USD values below, at and above 10, the value of one point.
PointAmounts == {0, 5, 9, 10, 19, 25, OnboardingThreshold}

\* The body of the loop over the fetched events in processSwapEvents:
\* RecordSwapAndUpdatePoints with calculatePoints(usdValue); an error is
\* logged and the loop continues.
RecordWithCalculatePoints ==
    \E sender \in Addrs, usdValue \in PointAmounts, fails \in BOOLEAN :
        LET txHash == Cardinality(TxHashes) + Len(swap_events) + 1
            rec == RecordSwapAndUpdatePoints(DB, now, sender, usdValue,
                                             CalculatePoints(usdValue), txHash, fails)
        IN /\ Len(rec.db.swap_events) <= MaxSwaps
           /\ Len(rec.db.points_history) <= MaxHist
           /\ SetDB(rec.db)
           /\ result' = [op |-> "recordWithCalculatePoints", err |-> rec.err,
                         sender |-> sender, usdValue |-> usdValue]
           /\ UNCHANGED <<now, pollvars, netvars>>

NextPoints == RecordWithCalculatePoints

SpecPoints == Init /\ [][NextPoints]_vars

(***************************************************************************)
(* Claims settled under SpecSvc.                                           *)
(***************************************************************************)
RowsWithHash(h) == SelectSeq(swap_events, LAMBDA r : r.transaction_hash = h)

RECURSIVE SumPoints(_)
SumPoints(hist) == IF hist = <<>> THEN 0 ELSE Head(hist).points + SumPoints(Tail(hist))

HistoryPoints(a) == SumPoints(SelectSeq(points_history, LAMBDA h : h.user = a))

LeaderboardPoints(a) == IF a \in DOMAIN leaderboard THEN leaderboard[a] ELSE 0

\* C1: however often the record-swap operation is invoked with the same
\* transaction hash, one swap-event row exists for the hash, and the points
\* of its first successful invocation are not awarded again.
C1_OneRowPerTransactionHash ==
    /\ \A h \in TxHashes : Len(RowsWithHash(h)) <= 1
    /\ Len(SelectSeq(points_history, LAMBDA p : p.reason = "Swap"))
          <= Cardinality({swap_events[i].transaction_hash : i \in 1..Len(swap_events)})

\* C2: after any sequence of processed swaps and weekly distributions, every
\* address has leaderboard points equal to the sum of its points-history amounts.
C2_LeaderboardEqualsHistory ==
    \A a \in Addrs : LeaderboardPoints(a) = HistoryPoints(a)

\* C3: a tick on which the Ledger failed to record a log of the fetched batch
\* leaves lastProcessedBlock before the batch, so the batch is fetched again.
C3_NoAdvanceOnLedgerFailure ==
    [][(result'.op = "tick" /\ result'.recordFailed)
          => lastProcessedBlock' < result'.from]_vars

\* The cursor the next tick works from: "if lastProcessedBlock == 0".
EffectiveCursor(latest, cursor) == IF cursor = 0 THEN FirstCursor(latest) ELSE cursor

\* The tick ended on an error of GetLatestBlockNumber or FetchSwapEvents.
ChainErrorTick(r) == r.op = "tick" /\ r.err /\ ~r.fetched

C19_NoNewTickAfterCancel ==
    result.op \in {"tick", "manageCampaign"} => ~result.afterCancel

\* C31: while the process runs and the campaign is active, the weekly
\* distribution is executed exactly once in every 7-day period: of any seven
\* consecutive daily ticks inside the campaign, exactly one runs it.
C31_WeeklyRunsOncePerWeek ==
    (/\ Len(ticker.recent) = WeekDays
     /\ \A i \in 1..WeekDays : ticker.recent[i].active)
        => Cardinality({i \in 1..WeekDays : ticker.recent[i].weekly}) = 1

\* C33: a swap processed while the campaign is inactive or outside its time
\* window has no ledger effect: no swap-event row, no points-history entry,
\* no change of a user's onboarding state or total points or of the
\* leaderboard.
C33_NoLedgerEffectOutsideCampaign ==
    [][(result'.op = "tick" /\ OutsideCampaign(GetCampaignConfig(DB), now))
       => /\ swap_events' = swap_events
          /\ points_history' = points_history
          /\ users' = users
          /\ leaderboard' = leaderboard]_vars

\* C16: a weekly distribution run started while the campaign is inactive or
\* the time is outside its [start, end] window awards no points: users,
\* points history and leaderboard are as before the run.
C16_NoAwardOutsideCampaign ==
    [][(/\ result'.op = "manageCampaign"
        /\ result'.weekly
        /\ OutsideCampaign(GetCampaignConfig(DB), now))
       => /\ users' = users
          /\ points_history' = points_history
          /\ leaderboard' = leaderboard]_vars

\* C14: the block ranges of the ticks that completed are disjoint, contiguous
\* and increasing: each starts at the block after the one the tick before it
\* ended with, so no block is processed again and none is skipped.
C14_RangesDisjointContiguous ==
    \A i \in 2..Len(fetchedRanges) :
        fetchedRanges[i].from = fetchedRanges[i - 1].to + 1

\* C12: from an empty ledger a first processed swap of $1500 by A gives A
\* total points 250 and leaderboard 250; a $50 swap by A processed next adds
\* exactly 5 to both and no onboarding entry.
C12_FirstSwapsPoints ==
    [][(/\ result'.op = "ProcessSwapEvents"
        /\ result'.outcome = "ok"
        /\ result'.event.sender = "A")
       => /\ (/\ result'.event.usd = 1500
               /\ users = EmptyFn /\ leaderboard = EmptyFn
               /\ swap_events = <<>> /\ points_history = <<>>)
             => /\ users'["A"].total_points = 250
                /\ leaderboard'["A"] = 250
          /\ (/\ result'.event.usd = 50
               /\ Len(swap_events) = 1
               /\ result.op = "ProcessSwapEvents" /\ result.outcome = "ok"
               /\ result.event.sender = "A" /\ result.event.usd = 1500)
             => /\ users'["A"].total_points = users["A"].total_points + 5
                /\ leaderboard'["A"] = leaderboard["A"] + 5
                /\ Len(points_history') = Len(points_history) + 1]_vars

\* C23: the points awarded for a recorded swap equal floor(USD value / 10),
\* except that a swap worth less than 10 USD (0 included) is awarded 1 point,
\* never 0.
C23_SwapPointsFloorMinOne ==
    (result.op = "recordWithCalculatePoints" /\ ~result.err) =>
        LET awarded == points_history[Len(points_history)]
        IN /\ awarded.user = result.sender /\ awarded.reason = "Swap"
           /\ awarded.points = (IF result.usdValue < 10 THEN 1
                                ELSE result.usdValue \div 10)

\* C24: the valuation of a swap uses the first non-zero amount in the order
\* amount0In, amount1Out, amount1In, amount0Out (a volatile amount times the
\* unit price, a stable amount as it is), is non-negative, and fails with an
\* error when all four amounts are zero.
C24_ValuationBranchOrder ==
    result.op = "valuedSwap" =>
        LET a == result.amounts
        IN IF a.amount0In > 0
           THEN ~result.err /\ result.value = (a.amount0In * EthPrice) \div WethUnits
           ELSE IF a.amount1Out > 0
           THEN ~result.err /\ result.value = a.amount1Out \div UsdcDecimals
           ELSE IF a.amount1In > 0
           THEN ~result.err /\ result.value = a.amount1In \div UsdcDecimals
           ELSE IF a.amount0Out > 0
           THEN ~result.err /\ result.value = (a.amount0Out * EthPrice) \div WethUnits
           ELSE result.err

\* C25: the points carried by a user_points_update notification, which is
\* sent after the swap's transaction committed, equal the user's cumulative
\* point total after that swap.
C25_UpdateCarriesNewTotal ==
    result.op = "ProcessSwapEvents" =>
        \A i \in 1..Len(result.notes) :
            result.notes[i].type = "user_points_update"
                => /\ result.notes[i].address \in DOMAIN users
                   /\ result.notes[i].points = users[result.notes[i].address].total_points

\* C38: computing a swap's points leaves the event's USD value unchanged:
\* the amount_usd persisted for a recorded swap equals the USD value the
\* event carried when its points were computed.
C38_PersistedUsdIsValuedUsd ==
    (result.op = "ProcessSwapEvents" /\ result.outcome # "record_err")
        => \A i \in 1..Len(swap_events) :
               swap_events[i].transaction_hash = result.event.tx
                   => swap_events[i].amount_usd = result.event.usd

\* C26: at any time at most one campaign_config row has is_active set, also
\* after a new campaign was started while an earlier row exists.
C26_AtMostOneActiveCampaign ==
    Cardinality({i \in 1..Len(campaign_config) : campaign_config[i].is_active}) <= 1

\* C27: the cursor, initialised to latestBlock - 100 on the first run, does
\* not exceed latestBlock whatever latestBlock is (values below 100 included),
\* and a fetched range lies within [0, latestBlock].
C27_FirstCursorWithinChain ==
    /\ U64Leq(lastProcessedBlock, latestBlock)
    /\ (result.op = "tick" /\ result.fetched)
          => (U64Leq(0, result.from) /\ U64Leq(result.from, result.to)
              /\ U64Leq(result.to, latestBlock))

\* C21: a raw log with a payload of another length than 128 bytes or with
\* fewer than 3 topics is skipped on its own: when no Ledger call fails, the
\* batch is not reported as failed and every well-formed log of the batch has
\* been recorded, whatever malformed logs stand before it.
C21_MalformedLogSkipped ==
    (result.op = "rawBatch" /\ result.ledgerOk) =>
        /\ ~result.err
        /\ \A i \in 1..Len(result.batch) :
              (/\ result.batch[i].topics = SwapTopics
               /\ result.batch[i].signature
               /\ result.batch[i].data = SwapDataLen)
                  => RowsWithHash(result.batch[i].tx) # <<>>

\* C11: every swap_event notification a tick handed to the Broadcaster belongs
\* to a swap whose Ledger transaction committed: a row with its transaction
\* hash is in swap_events when the tick ends.
C11_NotifyOnlyAfterCommit ==
    result.op = "tick" =>
        \A i \in 1..Len(result.notes) :
            result.notes[i].type = "swap_event"
                => RowsWithHash(result.notes[i].tx) # <<>>

(***************************************************************************)
(* internal/db package level: CalculateWeeklySharePoolPoints and the       *)
(* UpdateLeaderboard it calls, over the swaps recorded by RecordSwap.      *)
(***************************************************************************)
\* u.onboarding_completed = true ... HAVING COALESCE(SUM(se.amount_usd), 0) > 0,
\* the join taking the rows with timestamp >= NOW() - INTERVAL '7 days'.
PkgEligible(d, t) ==
    {a \in DOMAIN d.users : d.users[a].onboarding_completed /\ SvcUserVolume(d, t, a) > 0}

\* ORDER BY volume DESC
PkgVolumeOrders(d, t) ==
    LET E == PkgEligible(d, t)
        n == Cardinality(E)
    IN {o \in [1..n -> E] :
            /\ \A i, j \in 1..n : i # j => o[i] # o[j]
            /\ \A i \in 1..n :
                  i < n => SvcUserVolume(d, t, o[i]) >= SvcUserVolume(d, t, o[i + 1])}

\* UpdateLeaderboard (package level): DB.Exec, a statement of its own on the
\* pool, which no rollback of the caller's tx undoes.
PkgUpdateLeaderboard(lb, address, points) == UpsertLeaderboard(lb, address, points)

\* The leaderboard as a failed run leaves it: lbDone holds the statements
\* UpdateLeaderboard executed before the failure, lbBefore the table at Begin.
PkgLeaderboardAfterRollback(lbBefore, lbDone) == lbDone

RECURSIVE PkgPay(_, _, _, _, _)
\* The first k iterations of the loop over the eligible rows.
PkgPay(d, t, order, total, k) ==
    IF k = 0 \/ order = <<>> THEN d
    ELSE LET a == Head(order)
             points == ProRata(SvcUserVolume(d, t, a), total)
             paid == [d EXCEPT
                        !.points_history = Append(@, [user |-> a, points |-> points,
                                                      reason |-> "Weekly Share Pool Task"]),
                        !.users[a].total_points = @ + points,
                        !.leaderboard = PkgUpdateLeaderboard(@, a, points)]
         IN PkgPay(paid, t, Tail(order), total, k - 1)

\* fails: a statement returns an error after k iterations of the loop have
\* completed (k = Len(order): tx.Commit fails); the deferred tx.Rollback()
\* undoes the statements issued on tx.
PkgCalculateWeeklySharePoolPoints(d, t, order, fails, k) ==
    LET total == SumAmounts(SvcWindowRows(d, t))
        done == PkgPay(d, t, order, total, IF fails THEN k ELSE Len(order))
    IN IF total = 0 THEN [db |-> d, err |-> fails, ran |-> FALSE]
       ELSE IF fails
       THEN [db |-> [d EXCEPT !.leaderboard =
                        PkgLeaderboardAfterRollback(d.leaderboard, done.leaderboard)],
             err |-> TRUE, ran |-> TRUE]
       ELSE [db |-> done, err |-> FALSE, ran |-> TRUE]

PkgWeekly ==
    \E order \in PkgVolumeOrders(DB, now), fails \in BOOLEAN :
    \E k \in 0..Len(order) :
        /\ Len(points_history) + Len(order) <= MaxHist
        /\ LET r == PkgCalculateWeeklySharePoolPoints(DB, now, order, fails, k)
           IN /\ \A a \in DOMAIN r.db.leaderboard : r.db.leaderboard[a] <= MaxPoints
              /\ SetDB(r.db)
              /\ result' = [op |-> "PkgWeekly", err |-> r.err, ran |-> r.ran]
        /\ UNCHANGED <<now, pollvars, netvars>>

NextPkg == LegacyRecordSwap \/ PkgWeekly \/ AdvanceClock

SpecPkg == Init /\ [][NextPkg]_vars

\* users.total_points of an address (0 while it has no row).
TotalPoints(a) == IF a \in DOMAIN users THEN users[a].total_points ELSE 0

\* C15: in every committed state each user's total points equal the sum of
\* the amounts of the user's points-history entries, whatever their reason.
C15_TotalEqualsHistory ==
    \A a \in Addrs : TotalPoints(a) = HistoryPoints(a)

\* C8: a weekly distribution is all-or-nothing: after a failed run no user's
\* points history, total points or leaderboard entry reflects an award of it.
C8_WeeklyAllOrNothing ==
    [][(result'.op = "PkgWeekly" /\ result'.err)
          => UNCHANGED <<points_history, users, leaderboard>>]_vars

(***************************************************************************)
(* package main websocket.go: the topic broadcaster.                       *)
(* A message is modelled by its "type" field.  manager.broadcast has no    *)
(* sender outside the tests, so Run's broadcastToAll case never fires.     *)
(***************************************************************************)
\* The "type" the Broadcast* helper of a topic puts into its message.
MessageType(topic) ==
    CASE topic = "leaderboard" -> "leaderboard_update"
      [] topic = "swap_events" -> "swap_event"
      [] topic = "campaign" -> "campaign_update"

\* isSubscribed
IsSubscribed(subs, topic) == topic \in subs

\* The send of BroadcastToTopic without the test of the subscription.
TopicSendUnfiltered(queue, subscribed, message) ==
    IF Len(queue) < SendCap THEN Append(queue, message) ELSE queue

\* "if client.isSubscribed(topic) { select { case client.send <- message:"
TopicSend(queue, subscribed, message) ==
    IF subscribed /\ Len(queue) < SendCap THEN Append(queue, message) ELSE queue

\* The default case of that select: the queue of a subscribed client is full.
TopicSendFull(queue, subscribed) == subscribed /\ Len(queue) >= SendCap

\* A default case that starts no goroutine.
SpawnNothing(n) == n

\* "go func(c *WSClient) { manager.unregister <- c }(client)": one more
\* goroutine blocked on the unregister channel.
SpawnUnregister(n) == n + 1

\* BroadcastToTopic, under manager.mutex.RLock().
BroadcastToTopic(reg, sends, subs, unreg, topic, message) ==
    LET full == {c \in reg : TopicSendFull(sends[c], IsSubscribed(subs[c], topic))}
        sent == {c \in reg : IsSubscribed(subs[c], topic) /\ c \notin full}
    IN [send |-> [c \in Conns |->
                    IF c \in reg
                    THEN TopicSend(sends[c], IsSubscribed(subs[c], topic), message)
                    ELSE sends[c]],
        unregistering |-> [c \in Conns |->
                              IF c \in full THEN SpawnUnregister(unreg[c]) ELSE unreg[c]],
        sent |-> sent, full |-> full]

\* HandleWebSocket up to "manager.register <- client".
HandleWebSocket(c) ==
    /\ handler[c] = "idle"
    /\ handler' = [handler EXCEPT ![c] = "register"]
    /\ conn' = [conn EXCEPT ![c] = "open"]
    /\ result' = NoResult
    /\ UNCHANGED <<held, clients, writer, send, sendClosed, subscriptions, unregistering>>
    /\ UNCHANGED <<ledgervars, ws5vars>>

\* Run, case client := <-manager.register; HandleWebSocket then starts
\* writePump and enters readPump.
RunRegister(c) ==
    /\ loops["dispatch"] = "running"
    /\ handler[c] = "register"
    /\ clients' = clients \cup {c}
    /\ handler' = [handler EXCEPT ![c] = "read"]
    /\ writer' = [writer EXCEPT ![c] = "loop"]
    /\ result' = NoResult
    /\ UNCHANGED <<held, conn, send, sendClosed, subscriptions, unregistering>>
    /\ UNCHANGED <<ledgervars, ws5vars>>

\* readPump reads one request of its peer, whose topic is one of topics.
ReadPumpRequest(c, topics) ==
    \E action \in {"subscribe", "unsubscribe", "other"}, topic \in topics :
        /\ handler[c] = "read"
        /\ conn[c] = "open"
        /\ subscriptions' =
              [subscriptions EXCEPT ![c] =
                  CASE action = "subscribe" -> @ \cup {topic}
                    [] action = "unsubscribe" -> @ \ {topic}
                    [] OTHER -> @]
        /\ result' = NoResult
        /\ UNCHANGED <<held, clients, handler, writer, conn, send, sendClosed, unregistering>>
        /\ UNCHANGED <<ledgervars, ws5vars>>

\* readPump with peers that name the topics broadcasts go to.
ReadPumpMessage(c) == ReadPumpRequest(c, Topics)

\* readPump with peers that send any topic string.
ReadPumpAnyTopic(c) == ReadPumpRequest(c, RequestTopics)

\* ReadMessage returns an error (the peer is gone, the read deadline passed,
\* or the connection was closed): readPump breaks and runs its defer.
ReadPumpError(c) ==
    /\ handler[c] = "read"
    /\ handler' = [handler EXCEPT ![c] = "unregister"]
    /\ result' = NoResult
    /\ UNCHANGED <<held, clients, writer, conn, send, sendClosed, subscriptions, unregistering>>
    /\ UNCHANGED <<ledgervars, ws5vars>>

\* delete(manager.clients, client)
UnregisterClient(reg, c) == reg \ {c}

\* Run, case client := <-manager.unregister.  The sender is readPump's defer
\* (which then closes the connection) or a goroutine of BroadcastToTopic.
RunUnregister(c) ==
    \E from \in {"readPump", "goroutine"} :
        /\ loops["dispatch"] = "running"
        /\ from = "readPump" => handler[c] = "unregister"
        /\ from = "goroutine" => unregistering[c] > 0
        /\ clients' = UnregisterClient(clients, c)
        /\ sendClosed' = [sendClosed EXCEPT ![c] = @ \/ c \in clients]
        /\ IF from = "readPump"
           THEN /\ handler' = [handler EXCEPT ![c] = "done"]
                /\ conn' = [conn EXCEPT ![c] = "closed"]
                /\ UNCHANGED unregistering
           ELSE /\ unregistering' = [unregistering EXCEPT ![c] = @ - 1]
                /\ UNCHANGED <<handler, conn>>
        /\ result' = NoResult
        /\ UNCHANGED <<held, writer, send, subscriptions>>
        /\ UNCHANGED <<ledgervars, ws5vars>>

\* writePump, case message, ok := <-c.send.  With messages queued it writes
\* them as one frame (err: 0 none, 1 NextWriter fails, 2 w.Close fails); with
\* the channel closed and empty it writes the close message and returns.
WritePumpSend(c) ==
    \E err \in 0..2 :
        /\ writer[c] = "loop"
        /\ send[c] # <<>> \/ sendClosed[c]
        /\ conn[c] = "closed" => err # 0
        /\ send[c] = <<>> => err = 1
        /\ send' = [send EXCEPT ![c] = IF err = 1 /\ @ # <<>> THEN Tail(@) ELSE <<>>]
        /\ writer' = [writer EXCEPT ![c] = IF err = 0 THEN "loop" ELSE "done"]
        /\ conn' = [conn EXCEPT ![c] = IF err = 0 THEN @ ELSE "closed"]
        /\ result' = [op |-> "writePump", client |-> c,
                      frame |-> IF err = 0 THEN send[c] ELSE <<>>]
        /\ UNCHANGED <<held, clients, handler, sendClosed, subscriptions, unregistering>>
        /\ UNCHANGED <<ledgervars, ws5vars>>

\* writePump, case <-ticker.C: a ping that fails ends writePump.
WritePumpPing(c) ==
    \E ok \in BOOLEAN :
        /\ writer[c] = "loop"
        /\ conn[c] = "closed" => ~ok
        /\ writer' = [writer EXCEPT ![c] = IF ok THEN "loop" ELSE "done"]
        /\ conn' = [conn EXCEPT ![c] = IF ok THEN @ ELSE "closed"]
        /\ result' = NoResult
        /\ UNCHANGED <<held, clients, handler, send, sendClosed, subscriptions, unregistering>>
        /\ UNCHANGED <<ledgervars, ws5vars>>

\* BroadcastSwapEvent, BroadcastLeaderboardUpdate, BroadcastCampaignUpdate.
Broadcast ==
    \E topic \in Topics :
        LET r == BroadcastToTopic(clients, send, subscriptions, unregistering,
                                  topic, MessageType(topic))
        IN /\ \A c \in Conns : r.unregistering[c] <= MaxUnregistering
           /\ send' = r.send
           /\ unregistering' = r.unregistering
           /\ result' = [op |-> "BroadcastToTopic", topic |-> topic,
                         message |-> MessageType(topic), sent |-> r.sent, full |-> r.full]
           /\ UNCHANGED <<held, clients, handler, writer, conn, sendClosed, subscriptions>>
           /\ UNCHANGED <<ledgervars, ws5vars>>

NextWS ==
    \/ Broadcast
    \/ \E c \in Conns :
          \/ HandleWebSocket(c)
          \/ RunRegister(c)
          \/ ReadPumpMessage(c)
          \/ ReadPumpError(c)
          \/ RunUnregister(c)
          \/ WritePumpSend(c)
          \/ WritePumpPing(c)

\* Run is a goroutine of its own that main never cancels, and every client has
\* a writePump goroutine: a ready case of their selects is taken.
FairWS == \A c \in Conns : WF_vars(RunUnregister(c)) /\ WF_vars(WritePumpSend(c))

SpecWS == Init /\ [][NextWS]_vars /\ FairWS

\* writePump, case message, ok := <-c.send, up to "w.Write(message)": with
\* the channel closed and empty it writes the close message and returns; if
\* NextWriter fails it returns and the received message is lost.
WritePumpReceive(c) ==
    \E nextWriterFails \in BOOLEAN :
        /\ writer[c] = "loop"
        /\ send[c] # <<>> \/ sendClosed[c]
        /\ conn[c] = "closed" => nextWriterFails
        /\ IF send[c] # <<>> /\ ~nextWriterFails
           THEN /\ held' = [held EXCEPT ![c] = <<Head(send[c])>>]
                /\ writer' = [writer EXCEPT ![c] = "writing"]
                /\ UNCHANGED conn
           ELSE /\ writer' = [writer EXCEPT ![c] = "done"]
                /\ conn' = [conn EXCEPT ![c] = "closed"]
                /\ UNCHANGED held
        /\ send' = [send EXCEPT ![c] = IF @ # <<>> THEN Tail(@) ELSE @]
        /\ result' = NoResult
        /\ UNCHANGED <<clients, handler, sendClosed, subscriptions, unregistering>>
        /\ UNCHANGED <<ledgervars, ws5vars>>

\* writePump from "n := len(c.send)" to "w.Close()": the messages queued by
\* then follow the received one, each after a newline, in the same frame.
WritePumpFlush(c) ==
    \E closeFails \in BOOLEAN :
        /\ writer[c] = "writing"
        /\ conn[c] = "closed" => closeFails
        /\ send' = [send EXCEPT ![c] = <<>>]
        /\ held' = [held EXCEPT ![c] = <<>>]
        /\ writer' = [writer EXCEPT ![c] = IF closeFails THEN "done" ELSE "loop"]
        /\ conn' = [conn EXCEPT ![c] = IF closeFails THEN "closed" ELSE @]
        /\ result' = [op |-> "writeFrame", client |-> c, written |-> ~closeFails,
                      frame |-> held[c] \o send[c]]
        /\ UNCHANGED <<clients, handler, sendClosed, subscriptions, unregistering>>
        /\ UNCHANGED <<ledgervars, ws5vars>>

\* The broadcaster with writePump followed from its receive to its write.
NextFrames ==
    \/ Broadcast
    \/ \E c \in Conns :
          \/ HandleWebSocket(c)
          \/ RunRegister(c)
          \/ ReadPumpMessage(c)
          \/ ReadPumpError(c)
          \/ RunUnregister(c)
          \/ WritePumpReceive(c)
          \/ WritePumpFlush(c)
          \/ WritePumpPing(c)

SpecFrames == Init /\ [][NextFrames]_vars

\* Connections whose peers send requests with any topic string.
NextSubscribe ==
    \E c \in Conns :
        \/ HandleWebSocket(c)
        \/ RunRegister(c)
        \/ ReadPumpAnyTopic(c)
        \/ ReadPumpError(c)
        \/ RunUnregister(c)

SpecSubscribe == Init /\ [][NextSubscribe]_vars

\* The broadcaster with a context that can be cancelled: Run returns at its
\* ctx.Done() case and receives from no channel afterwards.
NextWSCancel == NextWS \/ Cancel \/ LoopReturns("dispatch")

SpecWSCancel == Init /\ [][NextWSCancel]_vars /\ FairWS

(***************************************************************************)
(* SpecStop: Stop called by several goroutines, any number of times each.  *)
(* sync.Once.Do(f): if done is unset, lock the Once's mutex, test done      *)
(* again, run f, set done, unlock.                                          *)
(***************************************************************************)
\* A Do that runs f whatever done says.
OnceRunsAlways(done) == TRUE

\* Does Do go on to run f?  "if o.done.Load() == 0"
OnceRuns(done) == ~done

\* What Stop leaves alone.
outsideStop == <<dbvars, now, pollvars, wsvars, ws5vars, ctx, loops, lockvars, ticker>>

\* Stop() up to Do's first test of done: a set done returns at once.
StopCall(s) ==
    /\ stopCalls[s].pc = "idle"
    /\ stopCalls[s].returned < MaxStopCalls
    /\ stopCalls' = [stopCalls EXCEPT ![s] =
                        IF OnceRuns(stopOnce.done) THEN [@ EXCEPT !.pc = "doSlow"]
                        ELSE [@ EXCEPT !.returned = @ + 1]]
    /\ result' = NoResult
    /\ UNCHANGED <<stop, stopOnce>>
    /\ UNCHANGED outsideStop

\* doSlow: o.m.Lock()
OnceLock(s) ==
    /\ stopCalls[s].pc = "doSlow"
    /\ stopOnce.m = "none"
    /\ stopOnce' = [stopOnce EXCEPT !.m = s]
    /\ stopCalls' = [stopCalls EXCEPT ![s].pc = "locked"]
    /\ result' = NoResult
    /\ UNCHANGED stop
    /\ UNCHANGED outsideStop

\* doSlow under the lock: the second test of done and f, which is
\* close(manager.stop); closing a closed channel panics.
OnceDo(s) ==
    /\ stopCalls[s].pc = "locked"
    /\ IF ~OnceRuns(stopOnce.done)
       THEN /\ stopCalls' = [stopCalls EXCEPT ![s].pc = "unlock"]
            /\ UNCHANGED stop
       ELSE IF stop.closed
       THEN /\ stopCalls' = [stopCalls EXCEPT ![s].pc = "panicked"]
            /\ UNCHANGED stop
       ELSE /\ stopCalls' = [stopCalls EXCEPT ![s].pc = "ran"]
            /\ stop' = [closed |-> TRUE, closes |-> stop.closes + 1]
    /\ result' = NoResult
    /\ UNCHANGED stopOnce
    /\ UNCHANGED outsideStop

\* The deferred o.done.Store(1) after f, the deferred o.m.Unlock(), return.
OnceReturn(s) ==
    /\ stopCalls[s].pc \in {"ran", "unlock"}
    /\ stopOnce' = [done |-> stopOnce.done \/ stopCalls[s].pc = "ran", m |-> "none"]
    /\ stopCalls' = [stopCalls EXCEPT ![s] = [pc |-> "idle", returned |-> @.returned + 1]]
    /\ result' = NoResult
    /\ UNCHANGED stop
    /\ UNCHANGED outsideStop

NextStop == \E s \in StopCallers : StopCall(s) \/ OnceLock(s) \/ OnceDo(s) \/ OnceReturn(s)

SpecStop == Init /\ [][NextStop]_vars

\* Stop called while connections come and go: Run's select has the cases
\* ctx.Done(), register, unregister and broadcast, and none on manager.stop.
NextStopRun ==
    \/ \E s \in StopCallers : StopCall(s) \/ OnceLock(s) \/ OnceDo(s) \/ OnceReturn(s)
    \/ \E c \in Conns :
          \/ HandleWebSocket(c)
          \/ RunRegister(c)
          \/ ReadPumpError(c)
          \/ RunUnregister(c)

SpecStopRun == Init /\ [][NextStopRun]_vars

\* C32: once Stop has been called (the stop channel is closed), the dispatch
\* loop Run processes no further register or unregister request: the
\* registry and the clients' send channels stay as they are.
C32_NoDispatchAfterStop ==
    [][stop.closed => (clients' = clients /\ sendClosed' = sendClosed)]_vars

\* C30: however often and by however many goroutines Stop is called, the
\* stop channel is closed exactly once and no call panics; a call that has
\* returned leaves the channel closed, and later calls change nothing.
C30_StopClosesOnce ==
    /\ stop.closes <= 1
    /\ \A s \in StopCallers : stopCalls[s].pc # "panicked"
    /\ (\E s \in StopCallers : stopCalls[s].returned > 0)
          => (stop.closed /\ stop.closes = 1 /\ stopOnce.done)

\* C30 witness: every goroutine has called Stop as often as explored, and the
\* channel was closed once.
C30_Witness ==
    /\ \A s \in StopCallers : stopCalls[s].returned = MaxStopCalls
    /\ stop.closed /\ stop.closes = 1

(***************************************************************************)
(* SpecLock: websocket.go with Run and a Broadcast* caller followed from   *)
(* one statement on manager.clients or manager.mutex to the next.          *)
(* writePump uses neither of the two and takes no step here.               *)
(***************************************************************************)
\* What the statements of Run and of the Broadcast* helpers leave alone.
outsideLock == <<dbvars, now, pollvars, ws5vars, ctx, loops, stopvars, ticker>>

\* One access to manager.clients: who, at which line, read or write, whether
\* the goroutine holds manager.mutex, and whether another goroutine is inside
\* its Lock()..Unlock() section at that moment.
RegistryAccess(by, line, kind, locked) ==
    [op |-> "registry", by |-> by, line |-> line, kind |-> kind, locked |-> locked,
     overlapsWrite |-> by # "Run" /\ mutex.writer]

MutexFree == ~mutex.writer /\ mutex.readers = 0

\* Run, case client := <-manager.register, and manager.mutex.Lock().
\* HandleWebSocket goes on to start writePump and to enter readPump.
RunRegisterLock(c) ==
    /\ loops["dispatch"] = "running"
    /\ runAt.pc = "select"
    /\ handler[c] = "register"
    /\ MutexFree
    /\ mutex' = [mutex EXCEPT !.writer = TRUE]
    /\ runAt' = [pc |-> "register", client |-> c]
    /\ handler' = [handler EXCEPT ![c] = "read"]
    /\ writer' = [writer EXCEPT ![c] = "loop"]
    /\ result' = NoResult
    /\ UNCHANGED <<held, clients, conn, send, sendClosed, subscriptions, unregistering, callerAt>>
    /\ UNCHANGED outsideLock

\* manager.clients[client] = true; manager.mutex.Unlock()
RunRegisterWrite ==
    /\ runAt.pc = "register"
    /\ clients' = clients \cup {runAt.client}
    /\ mutex' = [mutex EXCEPT !.writer = FALSE]
    /\ runAt' = [runAt EXCEPT !.pc = "register_log"]
    /\ result' = RegistryAccess("Run", 73, "write", TRUE)
    /\ UNCHANGED <<held, handler, writer, conn, send, sendClosed, subscriptions, unregistering,
                   callerAt>>
    /\ UNCHANGED outsideLock

\* log.Printf(..., len(manager.clients)) after the Unlock.
RunRegisterLog ==
    /\ runAt.pc = "register_log"
    /\ runAt' = [pc |-> "select", client |-> "none"]
    /\ result' = RegistryAccess("Run", 75, "read", FALSE)
    /\ UNCHANGED <<wsvars, mutex, callerAt>>
    /\ UNCHANGED outsideLock

\* Run, case client := <-manager.unregister, and the test
\* "if _, ok := manager.clients[client]; ok" made before the Lock.  The
\* sender is readPump's defer, which then closes the connection, or a
\* goroutine of BroadcastToTopic.
RunUnregisterCheck(c) ==
    \E from \in {"readPump", "goroutine"} :
        /\ loops["dispatch"] = "running"
        /\ runAt.pc = "select"
        /\ from = "readPump" => handler[c] = "unregister"
        /\ from = "goroutine" => unregistering[c] > 0
        /\ IF from = "readPump"
           THEN /\ handler' = [handler EXCEPT ![c] = "done"]
                /\ conn' = [conn EXCEPT ![c] = "closed"]
                /\ UNCHANGED unregistering
           ELSE /\ unregistering' = [unregistering EXCEPT ![c] = @ - 1]
                /\ UNCHANGED <<handler, conn>>
        /\ runAt' = IF c \in clients THEN [pc |-> "unregister", client |-> c]
                    ELSE [pc |-> "select", client |-> "none"]
        /\ result' = RegistryAccess("Run", 77, "read", FALSE)
        /\ UNCHANGED <<held, clients, writer, send, sendClosed, subscriptions, mutex, callerAt>>
        /\ UNCHANGED outsideLock

\* manager.mutex.Lock() of the unregister case.
RunUnregisterLock ==
    /\ runAt.pc = "unregister"
    /\ MutexFree
    /\ mutex' = [mutex EXCEPT !.writer = TRUE]
    /\ runAt' = [runAt EXCEPT !.pc = "unregister_locked"]
    /\ result' = NoResult
    /\ UNCHANGED <<wsvars, callerAt>>
    /\ UNCHANGED outsideLock

\* delete(manager.clients, client); close(client.send); manager.mutex.Unlock()
RunUnregisterDelete ==
    /\ runAt.pc = "unregister_locked"
    /\ clients' = UnregisterClient(clients, runAt.client)
    /\ sendClosed' = [sendClosed EXCEPT ![runAt.client] = TRUE]
    /\ mutex' = [mutex EXCEPT !.writer = FALSE]
    /\ runAt' = [runAt EXCEPT !.pc = "unregister_log"]
    /\ result' = RegistryAccess("Run", 79, "write", TRUE)
    /\ UNCHANGED <<held, handler, writer, conn, send, subscriptions, unregistering, callerAt>>
    /\ UNCHANGED outsideLock

\* log.Printf(..., len(manager.clients)) after the Unlock.
RunUnregisterLog ==
    /\ runAt.pc = "unregister_log"
    /\ runAt' = [pc |-> "select", client |-> "none"]
    /\ result' = RegistryAccess("Run", 82, "read", FALSE)
    /\ UNCHANGED <<wsvars, mutex, callerAt>>
    /\ UNCHANGED outsideLock

\* BroadcastLeaderboardUpdate up to its call of BroadcastToTopic: the
\* log.Printf with len(manager.clients).
BroadcastLeaderboardUpdateLen ==
    /\ callerAt.pc = "idle"
    /\ callerAt' = [pc |-> "call", topic |-> "leaderboard"]
    /\ result' = RegistryAccess("caller", 254, "read", FALSE)
    /\ UNCHANGED <<wsvars, mutex, runAt>>
    /\ UNCHANGED outsideLock

\* BroadcastSwapEvent up to its call of BroadcastToTopic.
BroadcastSwapEventCall ==
    /\ callerAt.pc = "idle"
    /\ callerAt' = [pc |-> "call", topic |-> "swap_events"]
    /\ result' = NoResult
    /\ UNCHANGED <<wsvars, mutex, runAt>>
    /\ UNCHANGED outsideLock

\* BroadcastToTopic: manager.mutex.RLock()
BroadcastToTopicRLock ==
    /\ callerAt.pc = "call"
    /\ ~mutex.writer
    /\ mutex' = [mutex EXCEPT !.readers = @ + 1]
    /\ callerAt' = [callerAt EXCEPT !.pc = "rlocked"]
    /\ result' = NoResult
    /\ UNCHANGED <<wsvars, runAt>>
    /\ UNCHANGED outsideLock

\* BroadcastToTopic: the loop over manager.clients and the deferred RUnlock.
BroadcastToTopicRange ==
    LET r == BroadcastToTopic(clients, send, subscriptions, unregistering,
                              callerAt.topic, MessageType(callerAt.topic))
    IN /\ callerAt.pc = "rlocked"
       /\ \A c \in Conns : r.unregistering[c] <= MaxUnregistering
       /\ send' = r.send
       /\ unregistering' = r.unregistering
       /\ mutex' = [mutex EXCEPT !.readers = @ - 1]
       /\ callerAt' = [pc |-> "idle", topic |-> "none"]
       /\ result' = RegistryAccess("caller", 113, "read", TRUE)
       /\ UNCHANGED <<held, clients, handler, writer, conn, sendClosed, subscriptions, runAt>>
       /\ UNCHANGED outsideLock

NextLock ==
    \/ RunRegisterWrite \/ RunRegisterLog
    \/ RunUnregisterLock \/ RunUnregisterDelete \/ RunUnregisterLog
    \/ BroadcastLeaderboardUpdateLen \/ BroadcastSwapEventCall
    \/ BroadcastToTopicRLock \/ BroadcastToTopicRange
    \/ \E c \in Conns :
          \/ HandleWebSocket(c)
          \/ RunRegisterLock(c)
          \/ ReadPumpMessage(c)
          \/ ReadPumpError(c)
          \/ RunUnregisterCheck(c)

SpecLock == Init /\ [][NextLock]_vars

\* C20: no access to the client registry overlaps a registry write of
\* another goroutine: whoever reads manager.clients does so while no other
\* goroutine is between manager.mutex.Lock() and Unlock().
C20_NoAccessOverlapsWrite ==
    result.op = "registry" => ~result.overlapsWrite

(***************************************************************************)
(* SpecChannel: websocket.go, the life of client.send.  Run and a caller   *)
(* of BroadcastToTopic are followed statement by statement, one client of  *)
(* a range loop at a time; a sender on manager.broadcast is assumed, so    *)
(* that broadcastToAll runs as well.  A close of a closed channel and a    *)
(* send on a closed channel panic; the result records which it was.        *)
(***************************************************************************)
\* The test of the unregister case that skips the close.
RegisteredAlways(reg, c) == TRUE

\* "if _, ok := manager.clients[client]; ok"
Registered(reg, c) == c \in reg

\* close(client.send)
CloseSend(by, c) ==
    [op |-> "close", by |-> by, client |-> c, onClosed |-> sendClosed[c]]

\* "select { case client.send <- message: ... default: ... }": the send case
\* is taken when the buffer has room (and panics on a closed channel).
SelectSend(c) ==
    [op |-> "send", client |-> c, onClosed |-> sendClosed[c],
     sent |-> Len(send[c]) < SendCap]

\* Run, case client := <-manager.unregister, and the test of the registry.
ChannelUnregisterCheck(c) ==
    \E from \in {"readPump", "goroutine"} :
        /\ loops["dispatch"] = "running"
        /\ runAt.pc = "select"
        /\ from = "readPump" => handler[c] = "unregister"
        /\ from = "goroutine" => unregistering[c] > 0
        /\ IF from = "readPump"
           THEN /\ handler' = [handler EXCEPT ![c] = "done"]
                /\ conn' = [conn EXCEPT ![c] = "closed"]
                /\ UNCHANGED unregistering
           ELSE /\ unregistering' = [unregistering EXCEPT ![c] = @ - 1]
                /\ UNCHANGED <<handler, conn>>
        /\ runAt' = IF Registered(clients, c) THEN [pc |-> "unregister", client |-> c]
                    ELSE [pc |-> "select", client |-> "none"]
        /\ result' = [op |-> "unregister", client |-> c, known |-> Registered(clients, c),
                      closed |-> sendClosed[c]]
        /\ UNCHANGED <<held, clients, writer, send, sendClosed, subscriptions, mutex, callerAt>>
        /\ UNCHANGED outsideLock

\* delete(manager.clients, client); close(client.send); manager.mutex.Unlock()
ChannelUnregisterClose ==
    /\ runAt.pc = "unregister_locked"
    /\ clients' = UnregisterClient(clients, runAt.client)
    /\ sendClosed' = [sendClosed EXCEPT ![runAt.client] = TRUE]
    /\ mutex' = [mutex EXCEPT !.writer = FALSE]
    /\ runAt' = [pc |-> "select", client |-> "none"]
    /\ result' = CloseSend("Run", runAt.client)
    /\ UNCHANGED <<held, handler, writer, conn, send, subscriptions, unregistering, callerAt>>
    /\ UNCHANGED outsideLock

\* Run, case message := <-manager.broadcast, and broadcastToAll's
\* manager.mutex.Lock(); the range loop will visit the clients of todo.
BroadcastToAllLock ==
    /\ loops["dispatch"] = "running"
    /\ runAt.pc = "select"
    /\ MutexFree
    /\ mutex' = [mutex EXCEPT !.writer = TRUE]
    /\ runAt' = [pc |-> "all", client |-> "none", todo |-> clients]
    /\ result' = NoResult
    /\ UNCHANGED <<wsvars, callerAt>>
    /\ UNCHANGED outsideLock

\* One iteration of broadcastToAll's loop: the send, or in the default case
\* close(client.send) and delete(manager.clients, client).
BroadcastToAllVisit(c) ==
    /\ runAt.pc = "all"
    /\ c \in runAt.todo
    /\ runAt' = [runAt EXCEPT !.todo = @ \ {c}]
    /\ IF SelectSend(c).sent
       THEN /\ send' = [send EXCEPT ![c] = Append(@, "broadcast")]
            /\ result' = SelectSend(c)
            /\ UNCHANGED <<clients, sendClosed>>
       ELSE /\ sendClosed' = [sendClosed EXCEPT ![c] = TRUE]
            /\ clients' = UnregisterClient(clients, c)
            /\ result' = CloseSend("broadcastToAll", c)
            /\ UNCHANGED send
    /\ UNCHANGED <<held, handler, writer, conn, subscriptions, unregistering, mutex, callerAt>>
    /\ UNCHANGED outsideLock

\* The end of the loop and the deferred manager.mutex.Unlock().
BroadcastToAllUnlock ==
    /\ runAt.pc = "all"
    /\ runAt.todo = {}
    /\ mutex' = [mutex EXCEPT !.writer = FALSE]
    /\ runAt' = [pc |-> "select", client |-> "none"]
    /\ result' = NoResult
    /\ UNCHANGED <<wsvars, callerAt>>
    /\ UNCHANGED outsideLock

\* BroadcastToTopic: manager.mutex.RLock(); the range loop will visit the
\* clients of todo.
ChannelToTopicRLock ==
    \E topic \in Topics :
        /\ callerAt.pc = "idle"
        /\ ~mutex.writer
        /\ mutex' = [mutex EXCEPT !.readers = @ + 1]
        /\ callerAt' = [pc |-> "range", topic |-> topic, todo |-> clients]
        /\ result' = NoResult
        /\ UNCHANGED <<wsvars, runAt>>
        /\ UNCHANGED outsideLock

\* One iteration of BroadcastToTopic's loop.
ChannelToTopicVisit(c) ==
    /\ callerAt.pc = "range"
    /\ c \in callerAt.todo
    /\ callerAt' = [callerAt EXCEPT !.todo = @ \ {c}]
    /\ IF ~IsSubscribed(subscriptions[c], callerAt.topic)
       THEN /\ result' = NoResult
            /\ UNCHANGED <<send, unregistering>>
       ELSE IF SelectSend(c).sent
       THEN /\ send' = [send EXCEPT ![c] = Append(@, MessageType(callerAt.topic))]
            /\ result' = SelectSend(c)
            /\ UNCHANGED unregistering
       ELSE /\ unregistering[c] < MaxUnregistering
            /\ unregistering' = [unregistering EXCEPT ![c] = SpawnUnregister(@)]
            /\ result' = SelectSend(c)
            /\ UNCHANGED send
    /\ UNCHANGED <<held, clients, handler, writer, conn, sendClosed, subscriptions, mutex, runAt>>
    /\ UNCHANGED outsideLock

\* The end of the loop and the deferred manager.mutex.RUnlock().
ChannelToTopicRUnlock ==
    /\ callerAt.pc = "range"
    /\ callerAt.todo = {}
    /\ mutex' = [mutex EXCEPT !.readers = @ - 1]
    /\ callerAt' = [pc |-> "idle", topic |-> "none"]
    /\ result' = NoResult
    /\ UNCHANGED <<wsvars, runAt>>
    /\ UNCHANGED outsideLock

NextChannel ==
    \/ RunRegisterWrite \/ RunRegisterLog
    \/ RunUnregisterLock \/ ChannelUnregisterClose
    \/ BroadcastToAllLock \/ BroadcastToAllUnlock
    \/ ChannelToTopicRLock \/ ChannelToTopicRUnlock
    \/ \E c \in Conns :
          \/ HandleWebSocket(c)
          \/ RunRegisterLock(c)
          \/ ReadPumpMessage(c)
          \/ ReadPumpError(c)
          \/ ChannelUnregisterCheck(c)
          \/ BroadcastToAllVisit(c)
          \/ ChannelToTopicVisit(c)

SpecChannel == Init /\ [][NextChannel]_vars

\* C36: a client's send channel is closed at most once and nothing is sent
\* on it after it was closed: no close and no send finds the channel closed,
\* whatever the interleaving of topic broadcasts, broadcasts to all, drops
\* of full clients and disconnects.
C36_SendClosedOnceNoSendAfter ==
    result.op \in {"close", "send"} => ~result.onClosed

\* C36 witness: Run receives an unregister request for a client whose
\* channel is closed already, and skips the close.
C36_Witness ==
    result.op = "unregister" /\ result.closed /\ ~result.known

(***************************************************************************)
(* Claims settled under SpecWS.                                            *)
(***************************************************************************)
\* C6: a message broadcast to topic T is enqueued only to registered clients
\* whose subscription set holds T at the time of the broadcast, and writePump
\* hands its peer nothing but what was enqueued.
C6_PubSubIsolation ==
    [][/\ result'.op = "BroadcastToTopic" =>
            \A c \in Conns :
                send'[c] # send[c] => (c \in clients /\ result'.topic \in subscriptions[c])
       /\ result'.op = "writePump" =>
            (result'.frame = <<>> \/ result'.frame = send[result'.client])]_vars

\* C6 witness: a broadcast reached a subscriber of its topic and left out a
\* registered client that is subscribed to another topic only.
C6_Witness ==
    /\ result.op = "BroadcastToTopic"
    /\ \E c, d \in clients :
          /\ c \in result.sent
          /\ d \notin result.sent
          /\ subscriptions[d] # {}
          /\ result.topic \notin subscriptions[d]
          /\ send[d] = <<>>

\* The "type" values of the message envelope.
MessageTypes == {"swap_event", "leaderboard_update", "user_points_update",
                 "campaign_update"}

\* C29: every text message written to a client is exactly one JSON object
\* whose type is one of the four envelope types, also when several messages
\* are queued in the client's send buffer at the time of writing.
C29_OneObjectPerFrame ==
    (result.op = "writeFrame" /\ result.written) =>
        /\ Len(result.frame) = 1
        /\ result.frame[1] \in MessageTypes

\* C28: at all times every client's subscription set holds only topics of
\* the closed set {swap_events, leaderboard, campaign}.
C28_SubscriptionsWithinTopics ==
    \A c \in Conns : subscriptions[c] \subseteq BroadcastTopics

\* C18: a client whose connection closed or errored is removed from the
\* registry and its tasks end, also after the dispatch loop was cancelled:
\* while readPump waits in its deferred "manager.unregister <- c", the
\* dispatch loop is there to receive the client (once the loop has returned,
\* no step removes the client, ends readPump or closes the connection).
C18_ClosedClientRemoved ==
    \A c \in Conns : handler[c] = "unregister" => loops["dispatch"] = "running"

\* C9: when a topic broadcast finds a subscribed client's buffer full, every
\* other subscribed client with a free slot still gets the message, and the
\* full client is then removed from the registry and its connection closed.
C9_FullClientDropped ==
    /\ [][result'.op = "BroadcastToTopic" =>
            \A d \in clients :
                (result'.topic \in subscriptions[d] /\ Len(send[d]) < SendCap)
                    => send'[d] = Append(send[d], result'.message)]_vars
    /\ \A c \in Conns :
          (result.op = "BroadcastToTopic" /\ c \in result.full)
              ~> (c \notin clients /\ conn[c] = "closed")

\* C9 witness: one broadcast found a client full and reached another.
C9_Witness ==
    /\ result.op = "BroadcastToTopic"
    /\ result.full # {}
    /\ result.sent # {}
    /\ \A c \in result.full : unregistering[c] > 0

(***************************************************************************)
(* internal/websocket: Run writes every broadcast to the connections       *)
(* itself, and the Broadcast* functions hand it the message over the       *)
(* unbuffered channel manager.broadcast.                                   *)
(***************************************************************************)
\* How client.WriteMessage of Run ends on a connection: "error" at once on a
\* closed connection or a write deadline in the past, "ok" when the peer's
\* socket takes the frame, "blocked" otherwise.
WriteMessage5(connState, deadline, queued) ==
    IF connState # "open" \/ deadline = "expired" THEN "error"
    ELSE IF queued < SockCap THEN "ok"
    ELSE "blocked"

\* Run's position after the write to c ended; left: the clients the range
\* has not visited yet.
AfterWrite5(left) ==
    IF left = {} THEN [pc |-> "select", todo |-> {}, current |-> "none"]
    ELSE [pc |-> "range", todo |-> left, current |-> "none"]

\* HandleWebSocket up to "manager.register <- conn".
HandleWebSocket5(c) ==
    /\ pump5[c] = "idle"
    /\ pump5' = [pump5 EXCEPT ![c] = "register"]
    /\ conn5' = [conn5 EXCEPT ![c] = "open"]
    /\ result' = NoResult
    /\ UNCHANGED <<clients5, sock5, deadline5, run5, caller5>>
    /\ UNCHANGED <<ledgervars, wsvars>>

\* Run, case client := <-manager.register; readPump and writePump start.
Run5Register(c) ==
    /\ run5.pc = "select"
    /\ pump5[c] = "register"
    /\ clients5' = clients5 \cup {c}
    /\ pump5' = [pump5 EXCEPT ![c] = "read"]
    /\ result' = NoResult
    /\ UNCHANGED <<conn5, sock5, deadline5, run5, caller5>>
    /\ UNCHANGED <<ledgervars, wsvars>>

\* ReadMessage returns an error: readPump breaks and runs its defer.
ReadPump5Error(c) ==
    /\ pump5[c] = "read"
    /\ pump5' = [pump5 EXCEPT ![c] = "unregister"]
    /\ result' = NoResult
    /\ UNCHANGED <<clients5, conn5, sock5, deadline5, run5, caller5>>
    /\ UNCHANGED <<ledgervars, wsvars>>

\* Run, case client := <-manager.unregister, then the conn.Close() of
\* readPump's defer.
Run5Unregister(c) ==
    /\ run5.pc = "select"
    /\ pump5[c] = "unregister"
    /\ clients5' = clients5 \ {c}
    /\ conn5' = [conn5 EXCEPT ![c] = "closed"]
    /\ pump5' = [pump5 EXCEPT ![c] = "done"]
    /\ result' = NoResult
    /\ UNCHANGED <<sock5, deadline5, run5, caller5>>
    /\ UNCHANGED <<ledgervars, wsvars>>

\* Run is inside client.WriteMessage on connection c.
RunWrites5(c) == run5.pc = "write" /\ run5.current = c

\* writePump, case <-ticker.C: SetWriteDeadline(now + writeWait), then the
\* ping; a failed ping ends writePump, whose defer closes the connection.
\* The result records whether Run was inside a write to the same connection.
WritePump5Ping(c) ==
    \E ok \in BOOLEAN :
        /\ pump5[c] \in {"read", "unregister"}
        /\ conn5[c] = "open"
        /\ deadline5' = [deadline5 EXCEPT ![c] = "pending"]
        /\ conn5' = [conn5 EXCEPT ![c] = IF ok THEN @ ELSE "closed"]
        /\ result' = [op |-> "ping", client |-> c,
                      whileRunWrites |-> RunWrites5(c)]
        /\ UNCHANGED <<clients5, pump5, sock5, run5, caller5>>
        /\ UNCHANGED <<ledgervars, wsvars>>

\* writeWait passes after the last SetWriteDeadline.
Deadline5Passes(c) ==
    /\ deadline5[c] = "pending"
    /\ deadline5' = [deadline5 EXCEPT ![c] = "expired"]
    /\ result' = NoResult
    /\ UNCHANGED <<clients5, conn5, pump5, sock5, run5, caller5>>
    /\ UNCHANGED <<ledgervars, wsvars>>

\* The peer reads a frame off its socket.
Peer5Reads(c) ==
    /\ sock5[c] > 0
    /\ sock5' = [sock5 EXCEPT ![c] = @ - 1]
    /\ result' = NoResult
    /\ UNCHANGED <<clients5, conn5, pump5, deadline5, run5, caller5>>
    /\ UNCHANGED <<ledgervars, wsvars>>

\* BroadcastSwapEvent, BroadcastLeaderboardUpdate, BroadcastUserPointsUpdate:
\* the caller reaches "manager.broadcast <- data".
Broadcast5Call ==
    /\ caller5 = "idle"
    /\ caller5' = "blocked"
    /\ result' = NoResult
    /\ UNCHANGED <<clients5, conn5, pump5, sock5, deadline5, run5>>
    /\ UNCHANGED <<ledgervars, wsvars>>

\* Run, case message := <-manager.broadcast: the caller returns, Run locks
\* the mutex and starts to range over the clients.
Run5Receive ==
    /\ run5.pc = "select"
    /\ caller5 = "blocked"
    /\ caller5' = "idle"
    /\ run5' = AfterWrite5(clients5)
    /\ result' = NoResult
    /\ UNCHANGED <<clients5, conn5, pump5, sock5, deadline5>>
    /\ UNCHANGED <<ledgervars, wsvars>>

\* The effect of a write of Run that has ended "ok" or "error".
Run5Wrote(c, how) ==
    /\ run5' = AfterWrite5(run5.todo \ {c})
    /\ IF how = "ok"
       THEN /\ sock5' = [sock5 EXCEPT ![c] = @ + 1]
            /\ UNCHANGED <<clients5, conn5>>
       ELSE /\ clients5' = clients5 \ {c}
            /\ conn5' = [conn5 EXCEPT ![c] = "closed"]
            /\ UNCHANGED sock5

\* Run calls client.WriteMessage for the next client of the range.
Run5Write(c) ==
    /\ run5.pc = "range"
    /\ c \in run5.todo
    /\ LET how == WriteMessage5(conn5[c], deadline5[c], sock5[c])
       IN IF how = "blocked"
          THEN /\ run5' = [run5 EXCEPT !.pc = "write", !.current = c]
               /\ UNCHANGED <<clients5, conn5, sock5>>
          ELSE Run5Wrote(c, how)
    /\ result' = NoResult
    /\ UNCHANGED <<pump5, deadline5, caller5>>
    /\ UNCHANGED <<ledgervars, wsvars>>

\* A write of Run that was blocked ends: the peer made room, the deadline
\* passed, or the connection was closed under it.
Run5WriteEnds(c) ==
    /\ run5.pc = "write"
    /\ run5.current = c
    /\ WriteMessage5(conn5[c], deadline5[c], sock5[c]) # "blocked"
    /\ Run5Wrote(c, WriteMessage5(conn5[c], deadline5[c], sock5[c]))
    /\ result' = NoResult
    /\ UNCHANGED <<pump5, deadline5, caller5>>
    /\ UNCHANGED <<ledgervars, wsvars>>

NextWS5 ==
    \/ Broadcast5Call
    \/ Run5Receive
    \/ \E c \in Conns :
          \/ HandleWebSocket5(c)
          \/ Run5Register(c)
          \/ ReadPump5Error(c)
          \/ Run5Unregister(c)
          \/ WritePump5Ping(c)
          \/ Deadline5Passes(c)
          \/ Peer5Reads(c)
          \/ Run5Write(c)
          \/ Run5WriteEnds(c)

SpecWS5 == Init /\ [][NextWS5]_vars

\* C10: neither a broadcast call nor the dispatch loop ever waits on an
\* individual client: Run is never suspended in a write to a client whose
\* peer does not drain its connection.
C10_NeverWaitsOnClient == run5.pc # "write"

\* C37: at most one task writes to a client connection at any moment: a
\* keep-alive ping is never written to a connection while a broadcast
\* payload is being written to it.
C37_OneWriterPerConnection ==
    result.op = "ping" => ~result.whileRunWrites

====
